---- MODULE Spec2Model ----
(***************************************************************************)
(* A model of the BMEventsApp event core: EventProcessor (status, time     *)
(* window, location resolution, filters, sorting), the brcGeo address      *)
(* resolver it calls, and the DataService / FavoritesService calls a       *)
(* processEvents pass awaits.                                              *)
(*                                                                         *)
(* Units.  A timestamp is a whole number of minutes (the code's            *)
(* milliseconds divided by 60000; every time constant of the code is a     *)
(* whole number of minutes).  A distance is a whole number of metres.  A   *)
(* latitude or longitude is a whole number of micro-degrees.  A string is  *)
(* a sequence of one-character strings.                                    *)
(***************************************************************************)
EXTENDS Integers, Sequences, FiniteSets, TLC

VARIABLES
    call,            \* pure-function harness: the call being made
    ret,             \* pure-function harness: what the call returned
    world,           \* what the data source holds (events, art, camps)
    dsArtMapCache,   \* DataService.artMapCache
    dsCampMapCache,  \* DataService.campMapCache
    originalEvents,  \* EventProcessor.originalEvents
    artMapCache,     \* EventProcessor.artMapCache
    campMapCache,    \* EventProcessor.campMapCache
    favorites,       \* FavoritesService.favorites (the id set)
    wallClock,       \* the device clock, what new Date() reads
    lastThrown,      \* the error the data loader threw last (history)
    pass,            \* the processEvents passes in flight, by pass id
    asyncStorage,    \* AsyncStorage: the stored item of each key, or null
    favoriteEvents,  \* FavoritesService.favoriteEvents
    isInitialized,   \* FavoritesService.isInitialized
    scheduled,       \* the event ids of the scheduled event reminders
    online,          \* whether NetInfo reports the device connected
    ops              \* the service calls made, each with the await it is at

harnessVars == <<call, ret>>
dataServiceVars == <<world, dsArtMapCache, dsCampMapCache>>
processorVars == <<originalEvents, artMapCache, campMapCache>>
passVars == <<favorites, wallClock, lastThrown, pass>>
serviceVars ==
    <<asyncStorage, favoriteEvents, isInitialized, scheduled, online, ops>>
vars == <<harnessVars, dataServiceVars, processorVars, passVars, serviceVars>>

(***************************************************************************)
(* Bounds of the model.                                                    *)
(***************************************************************************)
MaxTime == 20        \* timestamps of the status harness range over 0..MaxTime
MaxSortLen == 3      \* the lists handed to sortEvents have 0..MaxSortLen events
MaxSortTime == 1     \* their start and end times range over 0..MaxSortTime
MaxSortDist == 1     \* their non-null distances range over 0..MaxSortDist
NearbyMicroDegrees == 9000   \* how far north of the Man the art with GPS stands
MaxPassTime == 18    \* occurrence times of a pass range over 0..MaxPassTime
PassNow == 1         \* the now of a pass, and the wall clock
ShortWindow == 2     \* the shorter of the two look-ahead windows, in minutes

(***************************************************************************)
(* AppConfig defaults (the radius in ten-thousandths of a metre).          *)
(***************************************************************************)
defaultRadius == 10000000
defaultTimeWindow == 90
defaultYear == 2025

(***************************************************************************)
(* JavaScript values.  null/undefined, NaN and finite numbers are tagged   *)
(* records, so that a comparison with NaN is false as in the code.         *)
(***************************************************************************)
Null == [k |-> "null"]
NaN == [k |-> "nan"]
Num(v) == [k |-> "num", v |-> v]

IsNum(x) == x.k = "num"
\* a < b, a <= b, a >= b, a > b on JS numbers: false when either is NaN
NumLt(a, b) == IsNum(a) /\ IsNum(b) /\ a.v < b.v
NumLe(a, b) == IsNum(a) /\ IsNum(b) /\ a.v <= b.v
NumGe(a, b) == NumLe(b, a)
NumGt(a, b) == NumLt(b, a)
NumSub(a, b) == IF IsNum(a) /\ IsNum(b) THEN Num(a.v - b.v) ELSE NaN
NumAdd(a, b) == IF IsNum(a) /\ IsNum(b) THEN Num(a.v + b.v) ELSE NaN

(***************************************************************************)
(* Dates.  A raw timestamp of the dataset is missing, an unparseable       *)
(* string, or an ISO string of a minute t.  new Date(raw) is an Invalid    *)
(* Date (getTime() is NaN) for an unparseable string.                      *)
(***************************************************************************)
RawNone == [k |-> "none"]
RawBad == [k |-> "bad"]
RawIso(t) == [k |-> "iso", t |-> t]

DateOf(t) == [k |-> "date", time |-> Num(t)]
InvalidDate == [k |-> "date", time |-> NaN]
NewDate(raw) == IF raw.k = "iso" THEN DateOf(raw.t) ELSE InvalidDate
getTime(d) == d.time
\* occurrence.start_time ? new Date(occurrence.start_time) : null
ParseOrNull(raw) == IF raw.k = "none" THEN Null ELSE NewDate(raw)

(***************************************************************************)
(* Strings: sequences of one-character strings, with the String and RegExp *)
(* operations brcGeo uses.                                                 *)
(***************************************************************************)
Alphabet == <<"a", "b", "c", "d", "e", "f", "g", "h", "i", "j", "k", "l", "m",
              "n", "o", "p", "q", "r", "s", "t", "u", "v", "w", "x", "y", "z">>
UpperAlphabet ==
    <<"A", "B", "C", "D", "E", "F", "G", "H", "I", "J", "K", "L", "M",
      "N", "O", "P", "Q", "R", "S", "T", "U", "V", "W", "X", "Y", "Z">>
DigitChars == <<"0", "1", "2", "3", "4", "5", "6", "7", "8", "9">>

IsDigit(c) == \E i \in DOMAIN DigitChars : DigitChars[i] = c
DigitVal(c) == (CHOOSE i \in DOMAIN DigitChars : DigitChars[i] = c) - 1
IsSpace(c) == c = " "
toUpperChar(c) ==
    IF \E i \in DOMAIN Alphabet : Alphabet[i] = c
    THEN UpperAlphabet[CHOOSE i \in DOMAIN Alphabet : Alphabet[i] = c]
    ELSE c
toUpperCase(s) == [i \in DOMAIN s |-> toUpperChar(s[i])]

\* s.slice(from - 1): the characters of s from position from on
Drop(s, from) == SubSeq(s, from, Len(s))
\* whether sub occurs in s at position i
OccursAt(s, sub, i) ==
    /\ i >= 1 /\ i + Len(sub) - 1 <= Len(s)
    /\ SubSeq(s, i, i + Len(sub) - 1) = sub
\* s.includes(sub)
includes(s, sub) == \E i \in 1..(Len(s) + 1) : OccursAt(s, sub, i)
\* s.indexOf(sub), 0-based, -1 when sub does not occur
indexOf(s, sub) ==
    IF includes(s, sub)
    THEN (CHOOSE i \in 1..(Len(s) + 1) :
             /\ OccursAt(s, sub, i)
             /\ \A j \in 1..(i - 1) : ~OccursAt(s, sub, j)) - 1
    ELSE -1

RECURSIVE trimStart(_)
trimStart(s) ==
    IF s # <<>> /\ IsSpace(Head(s)) THEN trimStart(Tail(s)) ELSE s
RECURSIVE trimEnd(_)
trimEnd(s) ==
    IF s # <<>> /\ IsSpace(s[Len(s)])
    THEN trimEnd(SubSeq(s, 1, Len(s) - 1))
    ELSE s
trim(s) == trimEnd(trimStart(s))
\* s.replace(/\s+/g, "")
removeSpaces(s) == SelectSeq(s, LAMBDA c : ~IsSpace(c))

\* s.split(sep) for a one-character separator
RECURSIVE split(_, _)
split(s, sep) ==
    IF \E i \in DOMAIN s : s[i] = sep
    THEN LET i == CHOOSE i \in DOMAIN s :
                     s[i] = sep /\ \A j \in 1..(i - 1) : s[j] # sep
         IN  <<SubSeq(s, 1, i - 1)>> \o split(Drop(s, i + 1), sep)
    ELSE <<s>>

\* the number of leading characters of s that are digits
RECURSIVE DigitRun(_)
DigitRun(s) ==
    IF s # <<>> /\ IsDigit(Head(s)) THEN 1 + DigitRun(Tail(s)) ELSE 0
\* the number of leading characters of s that are white space
RECURSIVE SpaceRun(_)
SpaceRun(s) ==
    IF s # <<>> /\ IsSpace(Head(s)) THEN 1 + SpaceRun(Tail(s)) ELSE 0
\* the value of a string of digits
RECURSIVE DigitsValue(_)
DigitsValue(s) ==
    IF s = <<>> THEN 0
    ELSE 10 * DigitsValue(SubSeq(s, 1, Len(s) - 1)) + DigitVal(s[Len(s)])
RECURSIVE Pow10(_)
Pow10(n) == IF n = 0 THEN 1 ELSE 10 * Pow10(n - 1)

\* parseInt(s, 10): white space, a sign, then the leading digits; NaN if none
parseDigits(body) ==
    IF DigitRun(body) = 0 THEN NaN
    ELSE Num(DigitsValue(SubSeq(body, 1, DigitRun(body))))
Negated(x) == IF IsNum(x) THEN Num(0 - x.v) ELSE NaN
parseIntTrimmed(s) ==
    IF s # <<>> /\ Head(s) = "-" THEN Negated(parseDigits(Tail(s)))
    ELSE IF s # <<>> /\ Head(s) = "+" THEN parseDigits(Tail(s))
    ELSE parseDigits(s)
parseInt(str) == parseIntTrimmed(trimStart(str))

\* /^\d{1,4}$/.test(s)
IsDigits1to4(s) == Len(s) \in 1..4 /\ \A i \in DOMAIN s : IsDigit(s[i])
\* /^\d+(\.\d+)?$/.test(s), n the length of the leading run of digits
IsDecimalAfter(s, n) ==
    /\ n >= 1
    /\ \/ n = Len(s)
       \/ /\ n + 2 <= Len(s)
          /\ s[n + 1] = "."
          /\ DigitRun(Drop(s, n + 2)) = Len(s) - n - 1
IsDecimal(s) == IsDecimalAfter(s, DigitRun(s))
\* /^\d{1,4}(\.\d+)?$/.test(s)
IsDecimal1to4(s) == IsDecimal(s) /\ DigitRun(s) <= 4

Ok(v) == [k |-> "ok", v |-> v]
Throw(e) == [k |-> "throw", error |-> e]

(***************************************************************************)
(* brcGeo.  A bearing is a whole number of half-degrees (the clock's       *)
(* minute hand moves half a degree a minute), a ring radius a whole number *)
(* of feet, and a distance handed to destPoint a whole number of           *)
(* ten-thousandths of a metre (feet times 3048).  destPoint's spherical    *)
(* trigonometry is not computed: the point it returns is kept as the       *)
(* arguments that determine it.                                            *)
(***************************************************************************)
MAN == [lat |-> Num(40786958), lon |-> Num(0 - 119202994)]
ESPL_RADIUS_FT == 2500
WIDTH_Esplanade == 40
WIDTH == <<30, 30, 30, 30, 40, 30, 30, 30, 30, 30, 50>>
BLOCK == <<400, 250, 250, 250, 250, 450, 250, 250, 250, 150, 150>>
FT2M == 3048
CITY_ROTATION_DEG == 45

\* a % n of JavaScript: the remainder has the sign of a
JsRem(a, n) == IF a >= 0 THEN a % n ELSE 0 - ((0 - a) % n)

\* parseInt(mm, 10) || 0
OrZero(x) == IF x = NaN \/ x = Num(0) THEN Num(0) ELSE x
\* const [hh, mm = "0"] = s.split(":"), s holding a ":"
ClockColon(parts) ==
    Ok([h |-> parseInt(parts[1]), m |-> OrZero(parseInt(parts[2]))])
\* f = parseFloat(s); h = Math.floor(f); m = Math.round((f - h) * 60)
ClockDecimalParts(whole, frac) ==
    Ok([h |-> Num(DigitsValue(whole)),
        m |-> Num((120 * DigitsValue(frac) + Pow10(Len(frac)))
                     \div (2 * Pow10(Len(frac))))])
ClockDecimal(s, n) ==
    ClockDecimalParts(SubSeq(s, 1, n),
                      IF n = Len(s) THEN <<>> ELSE Drop(s, n + 2))
\* the hour and minute the three notations give
ClockHM(s) ==
    IF includes(s, <<":">>) THEN ClockColon(split(s, ":"))
    ELSE IF IsDigits1to4(s)
    THEN IF Len(s) <= 2
         THEN Ok([h |-> parseInt(s), m |-> Num(0)])
         ELSE Ok([h |-> parseInt(SubSeq(s, 1, Len(s) - 2)),
                  m |-> parseInt(Drop(s, Len(s) - 1))])
    ELSE IF IsDecimal(s) THEN ClockDecimal(s, DigitRun(s))
    ELSE Throw("Unrecognized clock notation")
\* ((h + m / 60) * 30 + CITY_ROTATION_DEG) % 360, in half-degrees
ClockBearing(h, m) ==
    IF h = NaN THEN Ok(NaN)
    ELSE Ok(Num(JsRem(60 * h.v + m.v + 2 * CITY_ROTATION_DEG, 720)))
ClockBearingOf(hm) ==
    IF hm.k = "throw" THEN hm
    ELSE ClockBearing(IF hm.v.h = Num(12) THEN Num(0) ELSE hm.v.h, hm.v.m)

bearingFromClock(clockStr) ==
    ClockBearingOf(ClockHM(removeSpaces(toUpperCase(trim(clockStr)))))

RingOrder == <<"A", "B", "C", "D", "E", "F", "G", "H", "I", "J", "K">>
RECURSIVE RingSum(_, _)
\* what the loop of radiusFeetForRing adds for i = 0..idx, from i on
RingSum(i, idx) ==
    IF i > idx THEN 0
    ELSE BLOCK[i + 1]
         + (IF i = idx THEN WIDTH[i + 1] \div 2 ELSE WIDTH[i + 1])
         + RingSum(i + 1, idx)

RingRadiusAt(idx) ==
    IF idx < 0 THEN Throw("Unknown ring")
    ELSE Ok(ESPL_RADIUS_FT + WIDTH_Esplanade \div 2 + RingSum(0, idx))
RingRadius(n) ==
    IF n = <<"E", "S", "P", "L", "A", "N", "A", "D", "E">> \/ n = <<"E", "S", "P", "L">>
    THEN Ok(ESPL_RADIUS_FT)
    ELSE RingRadiusAt(indexOf(RingOrder, n))

radiusFeetForRing(name) == RingRadius(toUpperCase(trim(name)))

\* the latitude or longitude of the point at distanceM and bearingDeg from
\* (lat, lon)
Proj(axis, lat, lon, distanceM, bearingDeg) ==
    [k |-> "proj", axis |-> axis, lat |-> lat, lon |-> lon,
     distanceM |-> distanceM, bearingDeg |-> bearingDeg]

destPoint(lat, lon, distanceM, bearingDeg) ==
    IF bearingDeg = NaN
    THEN [lat |-> NaN, lon |-> NaN]
    ELSE [lat |-> Proj("lat", lat, lon, distanceM, bearingDeg),
          lon |-> Proj("lon", lat, lon, distanceM, bearingDeg)]

\* destPoint(MAN.lat, MAN.lon, r_m, bearing) of a radius and a bearing,
\* either of which may have thrown (the radius is computed first)
PointAt(r, bearing) ==
    IF r.k = "throw" THEN r
    ELSE IF bearing.k = "throw" THEN bearing
    ELSE Ok(destPoint(MAN.lat, MAN.lon, r.v * FT2M, bearing.v))
PointOf(ring, clock) == PointAt(radiusFeetForRing(ring), bearingFromClock(clock))

\* plazaPart.match(/([A-K])\s+Plaza/i): where the leftmost match starts, 0 if
\* there is none
RingPlazaMatchesAt(s, i) ==
    /\ toUpperChar(s[i]) \in {RingOrder[j] : j \in DOMAIN RingOrder}
    /\ SpaceRun(Drop(s, i + 1)) >= 1
    /\ LET after == i + 1 + SpaceRun(Drop(s, i + 1))
       IN  /\ after + 4 <= Len(s)
           /\ toUpperCase(SubSeq(s, after, after + 4)) = toUpperCase(<<"P", "l", "a", "z", "a">>)
RingPlazaMatch(s) ==
    IF \E i \in DOMAIN s : RingPlazaMatchesAt(s, i)
    THEN CHOOSE i \in DOMAIN s :
            /\ RingPlazaMatchesAt(s, i)
            /\ \A j \in 1..(i - 1) : ~RingPlazaMatchesAt(s, j)
    ELSE 0

\* s.match(/(\d{1,2}:\d{2}|\d{1,2})\s+Portal/): the captured group of the
\* leftmost match, <<>> if there is none.  At a position the alternatives
\* are tried in the order of PortalGroups.
PortalTail(s, from) ==
    /\ SpaceRun(Drop(s, from)) >= 1
    /\ OccursAt(s, <<"P", "o", "r", "t", "a", "l">>, from + SpaceRun(Drop(s, from)))
PortalGroupIs(s, i, digits, withMinutes) ==
    /\ i + digits - 1 <= Len(s)
    /\ \A j \in i..(i + digits - 1) : IsDigit(s[j])
    /\ IF withMinutes
       THEN /\ i + digits + 2 <= Len(s)
            /\ s[i + digits] = ":"
            /\ IsDigit(s[i + digits + 1]) /\ IsDigit(s[i + digits + 2])
            /\ PortalTail(s, i + digits + 3)
       ELSE PortalTail(s, i + digits)
PortalGroups ==
    <<[digits |-> 2, withMinutes |-> TRUE], [digits |-> 1, withMinutes |-> TRUE],
      [digits |-> 2, withMinutes |-> FALSE], [digits |-> 1, withMinutes |-> FALSE]>>
PortalMatchesAt(s, i) ==
    \E g \in DOMAIN PortalGroups :
       PortalGroupIs(s, i, PortalGroups[g].digits, PortalGroups[g].withMinutes)
PortalMatch(s) ==
    IF \E i \in DOMAIN s : PortalMatchesAt(s, i)
    THEN LET i == CHOOSE i \in DOMAIN s :
                     /\ PortalMatchesAt(s, i)
                     /\ \A j \in 1..(i - 1) : ~PortalMatchesAt(s, j)
             g == CHOOSE g \in DOMAIN PortalGroups :
                     /\ PortalGroupIs(s, i, PortalGroups[g].digits,
                                      PortalGroups[g].withMinutes)
                     /\ \A f \in 1..(g - 1) :
                           ~PortalGroupIs(s, i, PortalGroups[f].digits,
                                          PortalGroups[f].withMinutes)
             len == PortalGroups[g].digits
                    + (IF PortalGroups[g].withMinutes THEN 3 ELSE 0)
         IN  SubSeq(s, i, i + len - 1)
    ELSE <<>>

isClockish(s) == includes(s, <<":">>) \/ IsDecimal1to4(s)
\* /^ESPL/i.test(s)
StartsWithEspl(s) == Len(s) >= 4 /\ toUpperCase(SubSeq(s, 1, 4)) = <<"E", "S", "P", "L">>

\* What a branch of coordOf takes for the ring and the clock: Ok of the
\* two, a Throw, or NoMatch when the branch falls through to the next.
NoMatch == [k |-> "none"]
RingAndClock(ring, clock) == Ok([ring |-> ring, clock |-> clock])
FirstMatch(a, b) == IF a = NoMatch THEN b ELSE a

\* the "<ring> Plaza @ <clock>" branch
RingPlazaAt(plazaPart, clockPart, i) ==
    IF i # 0 THEN RingAndClock(<<plazaPart[i]>>, clockPart) ELSE NoMatch
RingPlazaOf(plazaPart, clockPart) ==
    RingPlazaAt(plazaPart, clockPart, RingPlazaMatch(plazaPart))
RingPlazaParts(parts) ==
    IF Len(parts) = 2
    THEN RingPlazaOf(trim(parts[1]), trim(parts[2]))
    ELSE NoMatch
PlazaBranch(locationString) ==
    IF includes(locationString, <<"P", "l", "a", "z", "a">>)
    THEN IF includes(locationString, <<"C", "e", "n", "t", "e", "r", " ", "C", "a", "m", "p", " ", "P", "l", "a", "z", "a">>)
         THEN RingAndClock(<<"E", "S", "P", "L", "A", "N", "A", "D", "E">>, <<"6", ":", "0", "0">>)
         ELSE RingPlazaParts(split(locationString, "@"))
    ELSE NoMatch

\* the "<clock> Portal" branch
PortalOf(clock) ==
    IF clock # <<>> THEN RingAndClock(<<"E", "S", "P", "L", "A", "N", "A", "D", "E">>, clock) ELSE NoMatch
PortalBranch(locationString) ==
    IF /\ includes(locationString, <<"P", "o", "r", "t", "a", "l">>)
       /\ ~includes(locationString, <<"&">>)
    THEN PortalOf(PortalMatch(locationString))
    ELSE NoMatch

\* the "&" branch with the clock always taken from the first part
AssignClockAndRing_FirstIsClock(part1, part2, c1, c2) ==
    IF part1 = <<>> \/ part2 = <<>> THEN Throw("Invalid location")
    ELSE IF c1 = c2 THEN Throw("Ambiguous location format")
    ELSE RingAndClock(part2, part1)

\* the "&" branch; c1 and c2 are isClockish of the two parts
AssignClockAndRing(part1, part2, c1, c2) ==
    IF part1 = <<>> \/ part2 = <<>> THEN Throw("Invalid location")
    ELSE IF c1 /\ ~c2 THEN RingAndClock(part2, part1)
    ELSE IF c2 /\ ~c1 THEN RingAndClock(part1, part2)
    ELSE IF StartsWithEspl(part1) /\ c2 THEN RingAndClock(part1, part2)
    ELSE IF StartsWithEspl(part2) /\ c1 THEN RingAndClock(part2, part1)
    ELSE Throw("Ambiguous location format")
IntersectionOf(part1, part2) ==
    AssignClockAndRing(part1, part2, isClockish(part1), isClockish(part2))
\* const [part1, part2] = locationString.split("&").map(s => s.trim())
IntersectionBranch(locationString) ==
    IntersectionOf(trim(split(locationString, "&")[1]),
                   IF Len(split(locationString, "&")) >= 2
                   THEN trim(split(locationString, "&")[2])
                   ELSE <<>>)

PointOfParts(parts) ==
    IF parts.k = "throw" THEN parts ELSE PointOf(parts.v.ring, parts.v.clock)

coordOf(locationString) ==
    PointOfParts(FirstMatch(PlazaBranch(locationString),
                            FirstMatch(PortalBranch(locationString),
                                       IntersectionBranch(locationString))))

(***************************************************************************)
(* EventProcessor.determineEventStatus and passesTimeFilter.               *)
(***************************************************************************)
buffer == 15
timeFilterBuffer == 15

determineEventStatus_StrictBuffer(start, end, now) ==
    IF /\ NumLe(getTime(start), getTime(now))
       /\ NumLe(getTime(now), getTime(end))
       /\ NumGt(NumSub(getTime(end), getTime(now)), Num(buffer))
    THEN "NOW"
    ELSE IF NumLt(getTime(now), getTime(start))
         THEN IF NumLe(NumSub(getTime(start), getTime(now)), Num(buffer))
              THEN "SOON"
              ELSE "UPCOMING"
         ELSE "ENDED"

determineEventStatus(start, end, now) ==
    IF /\ NumLe(getTime(start), getTime(now))
       /\ NumLe(getTime(now), getTime(end))
       /\ NumGe(NumSub(getTime(end), getTime(now)), Num(buffer))
    THEN "NOW"
    ELSE IF NumLt(getTime(now), getTime(start))
         THEN LET timeUntilStart == NumSub(getTime(start), getTime(now))
              IN  IF NumLe(timeUntilStart, Num(buffer))
                  THEN "SOON"
                  ELSE "UPCOMING"
         ELSE "ENDED"

\* passesTimeFilter with the end of the window left out
passesTimeFilter_ExclusiveCutoff(start, end, now, upcomingCutoff, status) ==
    \/ /\ NumLe(getTime(start), getTime(now))
       /\ NumLe(getTime(now), getTime(end))
       /\ NumGe(NumSub(getTime(end), getTime(now)), Num(timeFilterBuffer))
    \/ /\ NumLt(getTime(now), getTime(start))
       /\ NumLt(getTime(start), getTime(upcomingCutoff))

\* passesTimeFilter letting an occurrence that has ended through as well
passesTimeFilter_EndedAdmitted(start, end, now, upcomingCutoff, status) ==
    \/ /\ NumLe(getTime(start), getTime(now))
       /\ NumLe(getTime(now), getTime(end))
    \/ /\ NumLt(getTime(now), getTime(start))
       /\ NumLe(getTime(start), getTime(upcomingCutoff))

passesTimeFilter(start, end, now, upcomingCutoff, status) ==
    LET isActive == /\ NumLe(getTime(start), getTime(now))
                    /\ NumLe(getTime(now), getTime(end))
                    /\ NumGe(NumSub(getTime(end), getTime(now)),
                             Num(timeFilterBuffer))
        isUpcoming == /\ NumLt(getTime(now), getTime(start))
                      /\ NumLe(getTime(start), getTime(upcomingCutoff))
    IN  isActive \/ isUpcoming

(***************************************************************************)
(* EventProcessor.resolveEventLocation.  An id or a string that is unset   *)
(* is "" or <<>> (both are falsy in the code, as undefined is); a venue    *)
(* map is Null or MapOf(m), m a function from the ids it holds.            *)
(***************************************************************************)
MapOf(m) == [k |-> "map", m |-> m]
\* map.get(id): the record, or Null
MapGet(map, id) == IF id \in DOMAIN map.m THEN map.m[id] ELSE Null
\* Number.isFinite(x) ? x : null
FiniteOrNull(x) == IF IsNum(x) THEN x ELSE Null

LocationInfo(lat, lon, label, source) ==
    [lat |-> lat, lon |-> lon, label |-> label, source |-> source]

\* map.get(id) behind the guard "id && map"
Lookup(map, id) == IF id # "" /\ map # Null THEN MapGet(map, id) ELSE Null

\* the result of the try / catch around coordOf
Geocoded(coords, label, source) ==
    IF coords.k = "ok"
    THEN LocationInfo(coords.v.lat, coords.v.lon, label, source)
    ELSE LocationInfo(Null, Null, label, source)

ArtLabel(art) == IF art.name # <<>> THEN <<"@", " ">> \o art.name ELSE <<"A", "r", "t", " ", "L", "o", "c", "a", "t", "i", "o", "n">>
\* art.location?.gps_latitude ?? null, then Number.isFinite(lat) ? lat : null
ArtLat(art) ==
    IF art.location # Null THEN FiniteOrNull(art.location.gps_latitude) ELSE Null
ArtLon(art) ==
    IF art.location # Null THEN FiniteOrNull(art.location.gps_longitude) ELSE Null

\* the camp and other-location branches and the default
CampOrOtherLocation(event, camp) ==
    IF camp # Null /\ camp.location_string # <<>>
    THEN Geocoded(coordOf(camp.location_string),
                  <<"@", " ", "[">> \o camp.location_string \o <<"]">>, "camp")
    ELSE IF event.other_location # <<>>
    THEN Geocoded(coordOf(event.other_location), event.other_location, "other")
    ELSE LocationInfo(Null, Null, <<"L", "o", "c", "a", "t", "i", "o", "n", " ", "T", "B", "D">>, "unknown")

\* LocationOf with an art installation that has no finite GPS coordinate
\* passed over for the camp
LocationOf_ArtNeedsGps(event, art, camp) ==
    IF art # Null /\ ArtLat(art) # Null /\ ArtLon(art) # Null
    THEN LocationInfo(ArtLat(art), ArtLon(art), ArtLabel(art), "art")
    ELSE CampOrOtherLocation(event, camp)

\* art and camp are what the two maps hold for the event, or Null
LocationOf(event, art, camp) ==
    IF art # Null
    THEN LocationInfo(ArtLat(art), ArtLon(art), ArtLabel(art), "art")
    ELSE CampOrOtherLocation(event, camp)

resolveEventLocation(event, artMap, campMap) ==
    LocationOf(event, Lookup(artMap, event.located_at_art),
               Lookup(campMap, event.hosted_by_camp))

(***************************************************************************)
(* The venues and addresses the worlds of the model are made of.           *)
(***************************************************************************)
ADDR_INTERSECTION == <<"6", ":", "0", "0", " ", "&", " ", "D">>
ADDR_PORTAL == <<"7", ":", "3", "0", " ", "P", "o", "r", "t", "a", "l">>
ADDR_FREE_TEXT == <<"T", "e", "a", " ", "T", "e", "n", "t">>
ADDR_BAD_CLOCK == <<"a", ":", "b", " ", "&", " ", "D">>

\* a point due north of the Man, on its meridian (GPS in micro-degrees)
NorthOfMan(microDegrees) ==
    [gps_latitude |-> Num(MAN.lat.v + microDegrees), gps_longitude |-> MAN.lon]

ArtRecord(uid, year, name, location) ==
    [uid |-> uid, year |-> year, name |-> name, location |-> location]
CampRecord(uid, year, location_string) ==
    [uid |-> uid, year |-> year, location_string |-> location_string]

ArtVenues ==
    [a \in {"artGps", "artNoLocation", "artNoGps", "artNullIsland", "artNoName",
            "artLastYear"} |->
        CASE a = "artGps" ->
                ArtRecord(a, defaultYear, <<"T", "e", "m", "p", "l", "e">>, NorthOfMan(NearbyMicroDegrees))
          [] a = "artNoLocation" -> ArtRecord(a, defaultYear, <<"T", "e", "m", "p", "l", "e">>, Null)
          [] a = "artNoGps" ->
                ArtRecord(a, defaultYear, <<"T", "e", "m", "p", "l", "e">>,
                          [gps_latitude |-> Null, gps_longitude |-> NaN])
          [] a = "artNullIsland" ->
                ArtRecord(a, defaultYear, <<"T", "e", "m", "p", "l", "e">>,
                          [gps_latitude |-> Num(0), gps_longitude |-> Num(0)])
          [] a = "artNoName" ->
                ArtRecord(a, defaultYear, <<>>, NorthOfMan(NearbyMicroDegrees))
          [] a = "artLastYear" ->
                ArtRecord(a, defaultYear - 1, <<"T", "e", "m", "p", "l", "e">>,
                          NorthOfMan(NearbyMicroDegrees))]

CampVenues ==
    [c \in {"campIntersection", "campPortal", "campFreeText", "campBadClock",
            "campNoAddress", "campLastYear"} |->
        CASE c = "campIntersection" -> CampRecord(c, defaultYear, ADDR_INTERSECTION)
          [] c = "campPortal" -> CampRecord(c, defaultYear, ADDR_PORTAL)
          [] c = "campFreeText" -> CampRecord(c, defaultYear, ADDR_FREE_TEXT)
          [] c = "campBadClock" -> CampRecord(c, defaultYear, ADDR_BAD_CLOCK)
          [] c = "campNoAddress" -> CampRecord(c, defaultYear, <<>>)
          [] c = "campLastYear" ->
                CampRecord(c, defaultYear - 1, ADDR_INTERSECTION)]

\* the ids an event may name: unset, held by the map, not held by it
ArtRefs == {"", "artMissing"} \cup DOMAIN ArtVenues
CampRefs == {"", "campMissing"} \cup DOMAIN CampVenues
OtherLocations == {<<>>, ADDR_INTERSECTION, ADDR_FREE_TEXT, ADDR_BAD_CLOCK}

(***************************************************************************)
(* Idle values of the state a specification does not use.                  *)
(***************************************************************************)
NoCall == [fn |-> "none"]
NoRet == [k |-> "pending"]
Returned(v) == [k |-> "returned", v |-> v]
NoWorld == [events |-> <<>>, art |-> <<>>, camps |-> <<>>]

HarnessIdle == call = NoCall /\ ret = NoRet
\* no storage, no favourites list, no service call
ServicesIdle ==
    /\ asyncStorage = <<>>
    /\ favoriteEvents = <<>>
    /\ isInitialized = FALSE
    /\ scheduled = {}
    /\ online = FALSE
    /\ ops = <<>>
PipelineIdle ==
    /\ world = NoWorld
    /\ dsArtMapCache = Null
    /\ dsCampMapCache = Null
    /\ originalEvents = <<>>
    /\ artMapCache = Null
    /\ campMapCache = Null
    /\ favorites = {}
    /\ wallClock = 0
    /\ lastThrown = Null
    /\ pass = <<>>

(***************************************************************************)
(* The status harness: determineEventStatus applied to every start, end    *)
(* (valid or Invalid Date) and valid now of 0..MaxTime.                    *)
(***************************************************************************)
HarnessDates == {DateOf(t) : t \in 0..MaxTime} \cup {InvalidDate}

InitStatus ==
    /\ \E s \in HarnessDates, e \in HarnessDates, n \in 0..MaxTime :
          call = [fn |-> "determineEventStatus",
                  start |-> s, end |-> e, now |-> DateOf(n)]
    /\ ret = NoRet
    /\ PipelineIdle
    /\ ServicesIdle

CallDetermineEventStatus ==
    /\ call.fn = "determineEventStatus"
    /\ ret = NoRet
    /\ ret' = Returned(determineEventStatus(call.start, call.end, call.now))
    /\ UNCHANGED <<serviceVars, call, dataServiceVars, processorVars, passVars>>

NextStatus == CallDetermineEventStatus

SpecStatus == InitStatus /\ [][NextStatus]_vars

(***************************************************************************)
(* C1.  determineEventStatus gives every occurrence exactly one status,    *)
(* from start, end, now and the 15-minute buffer alone: NOW iff            *)
(* start <= now <= end and end - now >= 15; SOON iff now < start and       *)
(* start - now <= 15; UPCOMING iff now < start and start - now > 15;       *)
(* ENDED otherwise (an Invalid Date satisfies no comparison).  With        *)
(* start <= now, end = now + 15 is NOW and end = now + 14 is ENDED.        *)
(***************************************************************************)
C1_Valid(d) == d.time.k = "num"
C1_IsNow(s, e, n) ==
    /\ C1_Valid(s) /\ C1_Valid(e)
    /\ s.time.v <= n.time.v /\ n.time.v <= e.time.v
    /\ e.time.v - n.time.v >= 15
C1_IsSoon(s, n) ==
    C1_Valid(s) /\ n.time.v < s.time.v /\ s.time.v - n.time.v <= 15
C1_IsUpcoming(s, n) ==
    C1_Valid(s) /\ n.time.v < s.time.v /\ s.time.v - n.time.v > 15

C1_StatusContract ==
    (call.fn = "determineEventStatus" /\ ret.k = "returned") =>
        LET s == call.start
            e == call.end
            n == call.now
        IN  /\ ret.v \in {"NOW", "SOON", "UPCOMING", "ENDED"}
            /\ (ret.v = "NOW") <=> C1_IsNow(s, e, n)
            /\ (ret.v = "SOON") <=> C1_IsSoon(s, n)
            /\ (ret.v = "UPCOMING") <=> C1_IsUpcoming(s, n)
            /\ (ret.v = "ENDED") <=>
                  ~(C1_IsNow(s, e, n) \/ C1_IsSoon(s, n) \/ C1_IsUpcoming(s, n))
            /\ (C1_Valid(s) /\ C1_Valid(e) /\ s.time.v <= n.time.v) =>
                  /\ (e.time.v = n.time.v + 15) => ret.v = "NOW"
                  /\ (e.time.v = n.time.v + 14) => ret.v = "ENDED"

C1_Witness ==
    /\ call.fn = "determineEventStatus" /\ ret.k = "returned"
    /\ C1_Valid(call.start) /\ C1_Valid(call.end)
    /\ call.start.time.v <= call.now.time.v
    /\ call.end.time.v = call.now.time.v + 15
    /\ ret.v = "NOW"

(***************************************************************************)
(* EventProcessor.sortEvents.  Array.prototype.sort is stable and orders   *)
(* by the sign of the comparator: modelled as a stable insertion sort,     *)
(* which every stable sort agrees with on a consistent comparator.         *)
(* localeCompare is modelled on strings of lower-case letters, where it    *)
(* is the alphabetical order.                                              *)
(***************************************************************************)
CharRank(c) == CHOOSE i \in 1..Len(Alphabet) : Alphabet[i] = c

RECURSIVE localeCompare(_, _)
localeCompare(a, b) ==
    IF a = <<>> /\ b = <<>> THEN 0
    ELSE IF a = <<>> THEN -1
    ELSE IF b = <<>> THEN 1
    ELSE IF CharRank(Head(a)) < CharRank(Head(b)) THEN -1
    ELSE IF CharRank(Head(a)) > CharRank(Head(b)) THEN 1
    ELSE localeCompare(Tail(a), Tail(b))

statusPriority(status) ==
    CASE status = "NOW" -> 0
      [] status = "SOON" -> 1
      [] status = "UPCOMING" -> 2
      [] status = "ENDED" -> 3
      [] OTHER -> 3

\* the comparator of the 'default' strategy, with NOW events by start time
compareDefault_NowByStart(a, b) ==
    LET aPriority == statusPriority(a.status)
        bPriority == statusPriority(b.status)
    IN  IF aPriority # bPriority THEN aPriority - bPriority
        ELSE getTime(a.start).v - getTime(b.start).v

compareDefault(a, b) ==
    LET aPriority == statusPriority(a.status)
        bPriority == statusPriority(b.status)
    IN  IF aPriority # bPriority THEN aPriority - bPriority
        ELSE IF a.status = "NOW"
             THEN getTime(a.end).v - getTime(b.end).v
             ELSE getTime(a.start).v - getTime(b.start).v

\* the comparator with events of null distance placed first
compareEvents_NullDistanceFirst(sortType, a, b) ==
    CASE sortType = "distance" ->
            IF a.distance = Null /\ b.distance = Null THEN 0
            ELSE IF a.distance = Null THEN -1
            ELSE IF b.distance = Null THEN 1
            ELSE a.distance.v - b.distance.v
      [] OTHER -> compareDefault(a, b)

\* the comparator sortEvents hands to sort for each sortType
compareEvents(sortType, a, b) ==
    CASE sortType = "distance" ->
            IF a.distance = Null /\ b.distance = Null THEN 0
            ELSE IF a.distance = Null THEN 1
            ELSE IF b.distance = Null THEN -1
            ELSE a.distance.v - b.distance.v
      [] sortType = "time" -> getTime(a.start).v - getTime(b.start).v
      [] sortType = "ending" ->
            IF a.status = "NOW" /\ b.status = "NOW"
            THEN getTime(a.end).v - getTime(b.end).v
            ELSE IF a.status = "NOW" /\ b.status # "NOW" THEN -1
            ELSE IF a.status # "NOW" /\ b.status = "NOW" THEN 1
            ELSE getTime(a.start).v - getTime(b.start).v
      [] sortType = "type" ->
            IF a.typeAbbr # b.typeAbbr
            THEN localeCompare(a.typeAbbr, b.typeAbbr)
            ELSE getTime(a.start).v - getTime(b.start).v
      [] sortType = "title" ->
            IF a.title # b.title
            THEN localeCompare(a.title, b.title)
            ELSE getTime(a.start).v - getTime(b.start).v
      [] OTHER -> compareDefault(a, b)

\* x placed into the sorted s behind every element it does not precede
RECURSIVE InsertStable(_, _, _)
InsertStable(sortType, s, x) ==
    IF s = <<>> THEN <<x>>
    ELSE IF compareEvents(sortType, x, Head(s)) < 0 THEN <<x>> \o s
    ELSE <<Head(s)>> \o InsertStable(sortType, Tail(s), x)

\* sort with the call to sort left out: the array as it was
ArraySort_Unsorted(sortType, s) == s

RECURSIVE ArraySort(_, _)
ArraySort(sortType, s) ==
    IF s = <<>> THEN <<>>
    ELSE InsertStable(sortType,
                      ArraySort(sortType, SubSeq(s, 1, Len(s) - 1)),
                      s[Len(s)])

\* sortEvents sorting the caller's array in place, without the copy
sortEvents_InPlace(events, sortType) ==
    [events |-> ArraySort(sortType, events),
     returned |-> ArraySort(sortType, events)]

\* sortEvents: the caller's array after the call, and the array returned
sortEvents(events, sortType) ==
    LET sortedEvents == events      \* [...events]
    IN  [events |-> events,
         returned |-> ArraySort(sortType, sortedEvents)]

(***************************************************************************)
(* The sort harness: sortEvents applied, for each sortType, to every list  *)
(* of up to MaxSortLen events that differ in the fields the sortType's     *)
(* comparator reads (and in the event uid or in a field it does not read,  *)
(* so that different events tie).                                          *)
(***************************************************************************)
SortTypes == {"distance", "time", "ending", "type", "title", "default"}
Statuses == {"NOW", "SOON", "UPCOMING", "ENDED"}
SortUids == {"e1", "e2"}
SortTitles == {<<"t", "e", "a">>, <<"y", "o", "g", "a">>}
SortAbbrs == {<<"f", "o", "o", "d">>, <<"a", "r", "t", "s">>}
SortDates == {DateOf(t) : t \in 0..MaxSortTime}
SortDistances == {Null} \cup {Num(d) : d \in 0..MaxSortDist}

SortEvent(uid, title, abbr, start, end, status, distance) ==
    [eventUid |-> uid, title |-> title, typeAbbr |-> abbr, start |-> start,
     end |-> end, status |-> status, distance |-> distance]

SortPool(sortType) ==
    LET t0 == <<"t", "e", "a">>
        a0 == <<"f", "o", "o", "d">>
        d0 == DateOf(0)
    IN  CASE sortType = "distance" ->
               {SortEvent(u, t0, a0, d0, d0, "SOON", d) :
                   u \in SortUids, d \in SortDistances}
          [] sortType = "time" ->
               {SortEvent(u, t0, a0, st, st, "SOON", Null) :
                   u \in SortUids, st \in SortDates}
          [] sortType = "type" ->
               {SortEvent(u, t0, a, st, st, "SOON", Null) :
                   u \in SortUids, a \in SortAbbrs, st \in SortDates}
          [] sortType = "title" ->
               {SortEvent(u, t, a0, st, st, "SOON", Null) :
                   u \in SortUids, t \in SortTitles, st \in SortDates}
          [] sortType = "ending" ->
               {SortEvent("e1", t0, a0, st, en, "NOW", Null) :
                   st \in SortDates, en \in SortDates}
               \cup {SortEvent("e1", t0, a0, st, st, "SOON", Null) :
                        st \in SortDates}
          [] OTHER ->
               {SortEvent("e1", t0, a0, st, en, "NOW", Null) :
                   st \in SortDates, en \in SortDates}
               \cup {SortEvent("e1", t0, a0, st, st, status, Null) :
                        st \in SortDates, status \in Statuses \ {"NOW"}}

SeqsUpTo(S, n) == UNION {[1..m -> S] : m \in 0..n}

InitSort ==
    /\ \E sortType \in SortTypes :
          \E events \in SeqsUpTo(SortPool(sortType), MaxSortLen) :
             call = [fn |-> "sortEvents", events |-> events,
                     sortType |-> sortType]
    /\ ret = NoRet
    /\ PipelineIdle
    /\ ServicesIdle

CallSortEvents ==
    /\ call.fn = "sortEvents"
    /\ ret = NoRet
    /\ LET r == sortEvents(call.events, call.sortType)
       IN  /\ call' = [call EXCEPT !.events = r.events]
           /\ ret' = Returned(r.returned)
    /\ UNCHANGED <<serviceVars, dataServiceVars, processorVars, passVars>>

NextSort == CallSortEvents

SpecSort == InitSort /\ [][NextSort]_vars

Range(s) == {s[i] : i \in DOMAIN s}
Count(s, x) == Cardinality({i \in DOMAIN s : s[i] = x})
IsPermutation(s, t) ==
    /\ Len(s) = Len(t)
    /\ \A x \in Range(s) \cup Range(t) : Count(s, x) = Count(t, x)
\* every ordering of the list s
RECURSIVE Orderings(_)
Orderings(s) ==
    IF s = <<>> THEN {<<>>}
    ELSE UNION {{<<s[i]>> \o rest :
                    rest \in Orderings([j \in 1..(Len(s) - 1) |->
                                           IF j < i THEN s[j] ELSE s[j + 1]])} :
                i \in DOMAIN s}

(***************************************************************************)
(* C8.  sortEvents leaves the list it is given as it was and, for every    *)
(* strategy, returns a list that is a permutation of it: same length,      *)
(* same elements.                                                          *)
(***************************************************************************)
C8_SortIsNonMutatingPermutation ==
    [][(call.fn = "sortEvents" /\ ret = NoRet /\ ret'.k = "returned") =>
          /\ call'.events = call.events
          /\ IsPermutation(ret'.v, call.events)]_vars

C8_Witness ==
    /\ call.fn = "sortEvents" /\ ret.k = "returned"
    /\ Len(call.events) = MaxSortLen
    /\ ret.v # call.events
    /\ IsPermutation(ret.v, call.events)

(***************************************************************************)
(* C9 as stated.  For every strategy, sortEvents returns the same sequence *)
(* for every ordering of the same collection of events.                    *)
(***************************************************************************)
C9_SameOutputForEveryOrdering ==
    (call.fn = "sortEvents" /\ ret.k = "returned") =>
        \A other \in Orderings(call.events) :
           sortEvents(other, call.sortType).returned = ret.v

(***************************************************************************)
(* C9 as amended.  For every strategy, the outputs for two orderings of    *)
(* the same collection agree position by position up to events that tie    *)
(* under the strategy's comparator, so they are the same sequence when no  *)
(* two different events of the collection tie.                             *)
(***************************************************************************)
C9_Tie(sortType, a, b) ==
    compareEvents(sortType, a, b) = 0 /\ compareEvents(sortType, b, a) = 0
C9_NoTies(sortType, s) ==
    \A i, j \in DOMAIN s : s[i] # s[j] => ~C9_Tie(sortType, s[i], s[j])

C9_SameOutputUpToTies ==
    (call.fn = "sortEvents" /\ ret.k = "returned") =>
        IF C9_NoTies(call.sortType, call.events)
        THEN \A other \in Orderings(call.events) :
                sortEvents(other, call.sortType).returned = ret.v
        ELSE \A other \in Orderings(call.events) :
                \A out \in {sortEvents(other, call.sortType).returned} :
                   /\ Len(out) = Len(ret.v)
                   /\ \A i \in DOMAIN out :
                         C9_Tie(call.sortType, out[i], ret.v[i])

C9_Witness ==
    /\ call.fn = "sortEvents" /\ ret.k = "returned"
    /\ Len(call.events) = MaxSortLen
    /\ \E other \in Orderings(call.events) :
          /\ other # call.events
          /\ sortEvents(other, call.sortType).returned # ret.v
    /\ \E i, j \in DOMAIN call.events :
          call.events[i] # call.events[j]
          /\ C9_Tie(call.sortType, call.events[i], call.events[j])

(***************************************************************************)
(* C10.  With the 'default' strategy the output is ordered by status       *)
(* priority NOW < SOON < UPCOMING < ENDED; NOW events by ascending end     *)
(* time; events of any other equal status by ascending start time.         *)
(***************************************************************************)
C10_Priority(status) ==
    CASE status = "NOW" -> 0
      [] status = "SOON" -> 1
      [] status = "UPCOMING" -> 2
      [] status = "ENDED" -> 3

C10_DefaultOrder ==
    (call.fn = "sortEvents" /\ call.sortType = "default" /\ ret.k = "returned") =>
        \A i, j \in DOMAIN ret.v :
           i < j =>
              LET a == ret.v[i]
                  b == ret.v[j]
              IN  /\ C10_Priority(a.status) <= C10_Priority(b.status)
                  /\ (a.status = b.status /\ a.status = "NOW") =>
                        a.end.time.v <= b.end.time.v
                  /\ (a.status = b.status /\ a.status # "NOW") =>
                        a.start.time.v <= b.start.time.v

C10_Witness ==
    /\ call.fn = "sortEvents" /\ call.sortType = "default" /\ ret.k = "returned"
    /\ ret.v # call.events
    /\ \E i, j \in DOMAIN ret.v :
          /\ i < j
          /\ ret.v[i].status = "NOW" /\ ret.v[j].status = "NOW"
          /\ ret.v[i].end.time.v < ret.v[j].end.time.v
          /\ ret.v[i].start.time.v > ret.v[j].start.time.v
    /\ \E i \in DOMAIN ret.v : ret.v[i].status # "NOW"

(***************************************************************************)
(* C11.  With the 'distance' strategy every event with a non-null distance *)
(* comes before every event with a null distance, the non-null ones are in *)
(* ascending order of distance, and the events with a null distance keep   *)
(* the relative order they had in the input.                               *)
(***************************************************************************)
C11_NullDistance(events) == SelectSeq(events, LAMBDA e : e.distance = Null)

C11_DistanceOrder ==
    (call.fn = "sortEvents" /\ call.sortType = "distance" /\ ret.k = "returned") =>
        /\ \A i, j \in DOMAIN ret.v :
              i < j =>
                 /\ ret.v[i].distance = Null => ret.v[j].distance = Null
                 /\ (ret.v[i].distance # Null /\ ret.v[j].distance # Null) =>
                       ret.v[i].distance.v <= ret.v[j].distance.v
        /\ C11_NullDistance(ret.v) = C11_NullDistance(call.events)

\* two different events without a distance, given ahead of one that has a
\* distance, come out behind it in the order they were given
C11_Witness ==
    /\ call.fn = "sortEvents" /\ call.sortType = "distance" /\ ret.k = "returned"
    /\ Len(call.events) = MaxSortLen
    /\ call.events[1].distance = Null
    /\ call.events[2].distance = Null
    /\ call.events[1] # call.events[2]
    /\ call.events[MaxSortLen].distance # Null
    /\ ret.v[1] = call.events[MaxSortLen]
    /\ C11_NullDistance(ret.v) = <<call.events[1], call.events[2]>>

(***************************************************************************)
(* The location harness: resolveEventLocation applied to every event whose *)
(* three location fields are drawn from ArtRefs, CampRefs and              *)
(* OtherLocations, with each venue map either not loaded or loaded.        *)
(***************************************************************************)
ResolveEvents ==
    {[uid |-> "e1", located_at_art |-> a, hosted_by_camp |-> c,
      other_location |-> o] :
        a \in ArtRefs, c \in CampRefs, o \in OtherLocations}

InitResolve ==
    /\ \E event \in ResolveEvents :
          call = [fn |-> "resolveEventLocation", event |-> event]
    /\ ret = NoRet
    /\ artMapCache \in {Null, MapOf(ArtVenues)}
    /\ campMapCache \in {Null, MapOf(CampVenues)}
    /\ world = NoWorld
    /\ dsArtMapCache = Null
    /\ dsCampMapCache = Null
    /\ originalEvents = <<>>
    /\ favorites = {}
    /\ wallClock = 0
    /\ lastThrown = Null
    /\ ServicesIdle
    /\ pass = <<>>

CallResolveEventLocation ==
    /\ call.fn = "resolveEventLocation"
    /\ ret = NoRet
    /\ ret' = Returned(resolveEventLocation(call.event, artMapCache,
                                            campMapCache))
    /\ UNCHANGED <<serviceVars, call, dataServiceVars, processorVars, passVars>>

NextResolve == CallResolveEventLocation

SpecResolve == InitResolve /\ [][NextResolve]_vars

(***************************************************************************)
(* C5.  resolveEventLocation follows a fixed, total priority.  The source  *)
(* is 'art' whenever located_at_art is set and held by the art map, also   *)
(* when that art has no GPS coordinate and whatever the camp and           *)
(* other-location fields are; otherwise 'camp' whenever hosted_by_camp is  *)
(* held by the camp map with a location string, and when coordOf throws on *)
(* that string the coordinate is null and the label alone carries it;      *)
(* otherwise 'other' whenever other_location is non-empty, with a null     *)
(* coordinate when coordOf throws on it; otherwise 'unknown' with a null   *)
(* coordinate.  An id the map does not hold is passed over, never an       *)
(* error: every call returns a LocationInfo.                               *)
(***************************************************************************)
C5_ArtFound(e) ==
    /\ e.located_at_art # ""
    /\ artMapCache # Null
    /\ e.located_at_art \in DOMAIN artMapCache.m
C5_CampFound(e) ==
    /\ e.hosted_by_camp # ""
    /\ campMapCache # Null
    /\ e.hosted_by_camp \in DOMAIN campMapCache.m
    /\ campMapCache.m[e.hosted_by_camp].location_string # <<>>
C5_NullCoordinate(r) == r.lat = Null /\ r.lon = Null

GeoValidClocks ==
    {<<"6", ":", "0", "0">>,
     <<"1", "2", ":", "3", "0">>,
     <<"9">>,
     <<"9", "3", "0">>,
     <<"6", ".", "5">>}
GeoOtherClocks == {<<"a", ":", "b">>,
     <<"x", "9">>}
GeoValidRings ==
    {<<"D">>,
     <<"k">>,
     <<"E", "s", "p", "l", "a", "n", "a", "d", "e">>,
     <<"E", "S", "P", "L">>,
     <<"A">>}
GeoOtherRings == {<<"L">>,
     <<"D", "E", "F">>}
GeoTokens ==
    GeoValidClocks \cup GeoOtherClocks \cup GeoValidRings \cup GeoOtherRings
Intersection(left, right) == left \o <<" ", "&", " ">> \o right
GeoOtherStrings ==
    {<<>>,
     <<"T", "e", "a", " ", "T", "e", "n", "t">>,
     <<"C", "e", "n", "t", "e", "r", " ", "C", "a", "m", "p", " ", "P", "l", "a", "z", "a">>,
     <<"C", "e", "n", "t", "e", "r", " ", "C", "a", "m", "p", " ", "P", "l", "a", "z", "a", " ", "@", " ", "7", ":", "3", "0">>,
     <<"9", ":", "0", "0", " ", "B", " ", "P", "l", "a", "z", "a", " ", "@", " ", "8", ":", "1", "5">>,
     <<"B", " ", "P", "l", "a", "z", "a", " ", "@", " ", "x">>,
     <<"B", " ", "P", "l", "a", "z", "a">>,
     <<"L", " ", "P", "l", "a", "z", "a", " ", "@", " ", "8", ":", "1", "5">>,
     <<"b", " ", " ", "p", "l", "a", "z", "a", " ", "@", " ", "9">>,
     <<"P", "l", "a", "z", "a", " ", "&", " ", "6", ":", "0", "0">>,
     <<"B", " ", "P", "l", "a", "z", "a", " ", "@", " ", "8", ":", "1", "5", " ", "@", " ", "9">>,
     <<"7", ":", "3", "0", " ", "P", "o", "r", "t", "a", "l">>,
     <<"6", " ", "P", "o", "r", "t", "a", "l">>,
     <<"P", "o", "r", "t", "a", "l">>,
     <<"x", " ", "P", "o", "r", "t", "a", "l">>,
     <<"6", ":", "0", "0", " ", "P", "o", "r", "t", "a", "l", " ", "&", " ", "D">>,
     <<"1", "2", "3", " ", "P", "o", "r", "t", "a", "l">>,
     <<"6", ":", "0", "0", " ", "&", " ", "D", " ", "&", " ", "E">>,
     <<"&", " ", "D">>,
     <<"6", ":", "0", "0", " ", "&">>,
     <<"6", ":", "0", "0", "&", "D">>,
     <<" ", "D", " ", " ", "&", " ", " ", "6", ":", "0", "0", " ">>}
GeoStrings ==
    {Intersection(t[1], t[2]) : t \in GeoTokens \X GeoTokens}
        \cup GeoOtherStrings

InitGeo ==
    /\ \E locationString \in GeoStrings :
          call = [fn |-> "coordOf", locationString |-> locationString]
    /\ ret = NoRet
    /\ PipelineIdle
    /\ ServicesIdle

CallCoordOf ==
    /\ call.fn = "coordOf"
    /\ ret = NoRet
    /\ ret' = Returned(coordOf(call.locationString))
    /\ UNCHANGED <<serviceVars, call, dataServiceVars, processorVars, passVars>>

NextGeo == CallCoordOf

SpecGeo == InitGeo /\ [][NextGeo]_vars

(***************************************************************************)
(* brcGeo.haversineMeters, in ten-thousandths of a metre, for the pairs of *)
(* points the model has: a point destPoint projected and the origin it was *)
(* projected from (the distance of the projection), and two points on one  *)
(* meridian (the arc R * dphi: R * pi / 180 is 111194.9266 m a degree).    *)
(***************************************************************************)
ArcLength(microDegrees) == microDegrees * 1111 + (microDegrees * 949) \div 1000
Abs(x) == IF x < 0 THEN 0 - x ELSE x
NotModelled(x) == CHOOSE d \in {} : d = x

haversineMeters(lat1, lon1, lat2, lon2) ==
    IF lat2.k = "proj"
    THEN IF lat2.lat = lat1 /\ lat2.lon = lon1
         THEN Num(lat2.distanceM)
         ELSE NotModelled(lat2)
    ELSE IF lon1 = lon2
         THEN Num(ArcLength(Abs(lat2.v - lat1.v)))
         ELSE NotModelled(lon2)

(***************************************************************************)
(* DataService.  loadData either resolves with the data of its cache key   *)
(* or rejects with an error (LoadError of the key); which of the two is     *)
(* the choice between the ...Resolves and ...Rejects actions below.        *)
(***************************************************************************)
LoadError(cacheKey) == [k |-> "error", cacheKey |-> cacheKey]

\* loadEvents, loadArt, loadCamps: the records of the year
OfYear(items, year) == SelectSeq(items, LAMBDA item : item.year = year)
\* ART_INDEXED and CAMPS_INDEXED hold every record under its uid; ART and
\* CAMPS hold the same records as a list
IndexedMap(venues) == MapOf(venues)
\* the map the fallback builds from the list loadArt() or loadCamps() gives
FallbackItems(venues) ==
    {venues[id] : id \in {i \in DOMAIN venues :
                             /\ venues[i].year = defaultYear
                             /\ venues[i].uid # ""}}
FallbackMap(venues) ==
    MapOf([uid \in {item.uid : item \in FallbackItems(venues)} |->
              CHOOSE item \in FallbackItems(venues) : item.uid = uid])

(***************************************************************************)
(* EventProcessor.processEvents.  A pass is the activation record of one   *)
(* call: pc names the await it is suspended at ("start" before the call,   *)
(* "returned" and "rejected" after it).                                    *)
(***************************************************************************)
Given(v) == [k |-> "given", v |-> v]
DefaultEventTypes ==
    {<<"p", "r", "t", "y">>, <<"f", "o", "o", "d">>, <<"t", "e", "a">>, <<"a", "r", "t", "s">>, <<"w", "o", "r", "k">>, <<"k", "i", "d">>, <<"a", "d", "l", "t">>, <<"o", "t", "h", "r">>}

\* the destructuring of searchParams with its defaults
WithDefaults(sp, clock) ==
    [lat |-> sp.lat, lon |-> sp.lon,
     radius |-> IF sp.radius = Null THEN defaultRadius ELSE sp.radius.v,
     timeWindow |-> IF sp.window = Null THEN defaultTimeWindow ELSE sp.window.v,
     year |-> IF sp.year = Null THEN defaultYear ELSE sp.year.v,
     now |-> IF sp.now = Null THEN DateOf(clock) ELSE sp.now,
     eventTypes |-> IF sp.eventTypes = Null THEN DefaultEventTypes
                    ELSE sp.eventTypes.v,
     showOnlyActive |-> sp.showOnlyActive,
     showOnlyUpcoming |-> sp.showOnlyUpcoming,
     showOnlyFavorites |-> sp.showOnlyFavorites]

\* (favoritesAtCall and previous are history: the favourite ids when the call
\* was made, and what the call before this one with the same searchParams
\* read and returned)
NewPass(searchParams) ==
    [pc |-> "start", searchParams |-> searchParams, params |-> Null,
     events |-> <<>>, awaited |-> Null, favoriteIds |-> Null, i |-> 0, j |-> 0,
     locationInfo |-> Null, processedEvents |-> <<>>, error |-> Null,
     favoritesAtCall |-> Null, previous |-> Null]

hasGPS(params) == IsNum(params.lat) /\ IsNum(params.lon)
upcomingCutoff(params) ==
    [k |-> "date", time |-> NumAdd(getTime(params.now), Num(params.timeWindow))]
\* `${event.uid}_${occurrence.start_time}`
EventId(event, occurrence) ==
    [uid |-> event.uid, start_time |-> occurrence.start_time]
\* the abbreviation without the 'othr' of an event that has no type
TypeAbbr_NoDefault(event) ==
    IF event.event_type # Null THEN event.event_type.abbr ELSE <<>>

\* event.event_type?.abbr || 'othr'
TypeAbbr(event) ==
    IF event.event_type # Null /\ event.event_type.abbr # <<>>
    THEN event.event_type.abbr
    ELSE <<"o", "t", "h", "r">>
\* x && ...: null, NaN and 0 are falsy
Truthy(x) == x.k = "proj" \/ (x.k = "num" /\ x.v # 0)

\* the occurrences that reach resolveEventLocation
AdmittedDates(start, end, now, cutoff) ==
    /\ start # Null
    /\ end # Null
    /\ passesTimeFilter(start, end, now, cutoff,
                        determineEventStatus(start, end, now))
Admitted(occurrence, params) ==
    AdmittedDates(ParseOrNull(occurrence.start_time),
                  ParseOrNull(occurrence.end_time),
                  params.now, upcomingCutoff(params))

\* the two loops, from occurrence j of event i on, up to the next occurrence
\* that reaches resolveEventLocation; NoPosition when the loops end first
NoPosition == [i |-> 0, j |-> 0]
RECURSIVE NextAdmitted(_, _, _, _)
NextAdmitted(events, params, i, j) ==
    IF i > Len(events) THEN NoPosition
    ELSE IF j > Len(events[i].occurrence_set)
         THEN NextAdmitted(events, params, i + 1, 1)
    ELSE IF Admitted(events[i].occurrence_set[j], params)
         THEN [i |-> i, j |-> j]
    ELSE NextAdmitted(events, params, i, j + 1)

\* getFutureOccurrences: the weekdays, in the order Su..S and without
\* repeats, of the event's other occurrences that start after the wall clock
\* (the string joins their abbreviations; an Invalid Date passes no test)
MinutesPerDay == 1440
DayAbbrs == <<"Su", "M", "Tu", "W", "Th", "F", "S">>
\* Date.getDay(), 0 for Sunday; 1 January 1970 was a Thursday
getDay(d) == (4 + getTime(d).v \div MinutesPerDay) % 7
\* the days with the occurrence being emitted counted among the others
FutureDays_WithCurrent(occurrence_set, clock, currentStart) ==
    {getDay(NewDate(occurrence_set[n].start_time)) :
        n \in {m \in DOMAIN occurrence_set :
                  NumGt(getTime(NewDate(occurrence_set[m].start_time)),
                        Num(clock))}}

FutureDays(occurrence_set, clock, currentStart) ==
    {getDay(NewDate(occurrence_set[n].start_time)) :
        n \in {m \in DOMAIN occurrence_set :
                  /\ NumGt(getTime(NewDate(occurrence_set[m].start_time)),
                           Num(clock))
                  /\ getTime(NewDate(occurrence_set[m].start_time))
                        # getTime(currentStart)}}
JoinDays(days) ==
    [n \in DOMAIN SelectSeq(<<0, 1, 2, 3, 4, 5, 6>>, LAMBDA d : d \in days) |->
        DayAbbrs[SelectSeq(<<0, 1, 2, 3, 4, 5, 6>>, LAMBDA d : d \in days)[n] + 1]]
FutureOccurrencesOf(found, clock, currentStart) ==
    IF found = <<>> THEN <<>>
    ELSE IF Len(found[1].occurrence_set) <= 1 THEN <<>>
    ELSE JoinDays(FutureDays(found[1].occurrence_set, clock, currentStart))
getFutureOccurrences(original, clock, eventUid, currentStart) ==
    FutureOccurrencesOf(SelectSeq(original, LAMBDA e : e.uid = eventUid),
                        clock, currentStart)

\* the distance of the occurrence, null unless the viewer has GPS and the
\* resolved latitude and longitude are both truthy
DistanceTo(params, locationInfo) ==
    IF hasGPS(params) /\ Truthy(locationInfo.lat) /\ Truthy(locationInfo.lon)
    THEN haversineMeters(params.lat, params.lon,
                         locationInfo.lat, locationInfo.lon)
    ELSE Null

ProcessedEvent(event, occurrence, start, end, status, distance, locationInfo, futureOccurrences) ==
    [id |-> EventId(event, occurrence),
     eventUid |-> event.uid,
     title |-> IF event.title # <<>> THEN event.title ELSE <<"U", "n", "t", "i", "t", "l", "e", "d", " ", "E", "v", "e", "n", "t">>,
     typeAbbr |-> TypeAbbr(event),
     start |-> start, end |-> end, status |-> status, distance |-> distance,
     lat |-> locationInfo.lat, lon |-> locationInfo.lon,
     locLabel |-> locationInfo.label,
     isRecurring |-> Len(event.occurrence_set) > 1,
     futureOccurrences |-> futureOccurrences]

\* the filters with the two status switches left out
SkippedBy_StatusIgnored(st, event, occurrence, status, distance) ==
    IF distance # Null /\ distance.v > st.params.radius THEN "distance"
    ELSE IF TypeAbbr(event) \notin st.params.eventTypes THEN "type"
    ELSE IF /\ st.params.showOnlyFavorites
            /\ EventId(event, occurrence) \notin st.favoriteIds
         THEN "favorites"
    ELSE "none"

\* the filters with the favourites store read anew for every occurrence
SkippedBy_LiveFavorites(st, event, occurrence, status, distance) ==
    IF distance # Null /\ distance.v > st.params.radius THEN "distance"
    ELSE IF TypeAbbr(event) \notin st.params.eventTypes THEN "type"
    ELSE IF st.params.showOnlyActive /\ status # "NOW" THEN "active"
    ELSE IF st.params.showOnlyUpcoming /\ status \in {"ENDED", "NOW"}
         THEN "upcoming"
    ELSE IF /\ st.params.showOnlyFavorites
            /\ EventId(event, occurrence) \notin favorites
         THEN "favorites"
    ELSE "none"

\* the filters after resolveEventLocation: which of them, if any, skips the
\* occurrence
SkippedBy(st, event, occurrence, status, distance) ==
    IF distance # Null /\ distance.v > st.params.radius THEN "distance"
    ELSE IF TypeAbbr(event) \notin st.params.eventTypes THEN "type"
    ELSE IF st.params.showOnlyActive /\ status # "NOW" THEN "active"
    ELSE IF st.params.showOnlyUpcoming /\ status \in {"ENDED", "NOW"}
         THEN "upcoming"
    ELSE IF /\ st.params.showOnlyFavorites
            /\ EventId(event, occurrence) \notin st.favoriteIds
         THEN "favorites"
    ELSE "none"

FilterAndPush(st, event, occurrence, start, end, status, distance, original, clock) ==
    IF SkippedBy(st, event, occurrence, status, distance) # "none" THEN st
    ELSE [st EXCEPT !.processedEvents =
            Append(@, ProcessedEvent(event, occurrence, start, end, status,
                                     distance, st.locationInfo,
                                     getFutureOccurrences(original, clock,
                                                          event.uid, start)))]
WithDates(st, event, occurrence, start, end, original, clock) ==
    FilterAndPush(st, event, occurrence, start, end,
                  determineEventStatus(start, end, st.params.now),
                  DistanceTo(st.params, st.locationInfo), original, clock)
\* the body of the inner loop from the await of resolveEventLocation on
AfterLocation(st, original, clock) ==
    WithDates(st, st.events[st.i], st.events[st.i].occurrence_set[st.j],
              NewDate(st.events[st.i].occurrence_set[st.j].start_time),
              NewDate(st.events[st.i].occurrence_set[st.j].end_time),
              original, clock)

\* suspend at the await of resolveEventLocation for the occurrence at pos
\* (resolveEventLocation reads the two maps when it is called), or return
SuspendAt(st, pos, artMap, campMap) ==
    IF pos = NoPosition
    THEN [st EXCEPT !.pc = "returned", !.locationInfo = Null]
    ELSE [st EXCEPT !.pc = "resolveEventLocation", !.i = pos.i, !.j = pos.j,
                    !.locationInfo =
                        resolveEventLocation(st.events[pos.i], artMap, campMap)]
RunLoops(st, i, j, artMap, campMap) ==
    SuspendAt(st, NextAdmitted(st.events, st.params, i, j), artMap, campMap)

\* dataService.getArtMap() and getCampMap() up to their first await
CallGetArtMap(st, cache) ==
    IF cache # Null
    THEN [st EXCEPT !.pc = "artMapCached", !.awaited = cache]
    ELSE [st EXCEPT !.pc = "artIndexed"]
CallGetCampMap(st, cache) ==
    IF cache # Null
    THEN [st EXCEPT !.pc = "campMapCached", !.awaited = cache]
    ELSE [st EXCEPT !.pc = "campIndexed", !.awaited = Null]
\* processEvents from the assignment of campMapCache to its next await
AfterMaps(st, artMap, campMap) ==
    IF st.params.showOnlyFavorites
    THEN [st EXCEPT !.pc = "getFavoriteIds", !.awaited = Null]
    ELSE RunLoops([st EXCEPT !.awaited = Null], 1, 1, artMap, campMap)
\* a pass that returns an empty list where it should reject
Rejected_Swallowed(st, error) == [st EXCEPT !.pc = "returned", !.awaited = Null]
Rejected(st, error) == [st EXCEPT !.pc = "rejected", !.error = error,
                                  !.awaited = Null]

\* processEvents is called: the parameters are destructured and loadEvents
\* is awaited
StartProcessEvents(p) ==
    /\ pass[p].pc = "start"
    /\ pass' = [pass EXCEPT ![p] =
                  [@ EXCEPT !.pc = "loadEvents",
                            !.params = WithDefaults(pass[p].searchParams,
                                                    wallClock),
                            !.favoritesAtCall = favorites]]
    /\ UNCHANGED <<serviceVars, harnessVars, dataServiceVars, processorVars, favorites,
                   wallClock, lastThrown>>

LoadEventsResolves(p) ==
    /\ pass[p].pc = "loadEvents"
    /\ originalEvents' = OfYear(world.events, pass[p].params.year)
    /\ pass' = [pass EXCEPT ![p] =
                  CallGetArtMap([@ EXCEPT !.events = originalEvents'],
                                dsArtMapCache)]
    /\ UNCHANGED <<serviceVars, harnessVars, dataServiceVars, artMapCache, campMapCache,
                   favorites, wallClock, lastThrown>>

LoadEventsRejects(p) ==
    /\ pass[p].pc = "loadEvents"
    /\ lastThrown' = LoadError("EVENTS")
    /\ pass' = [pass EXCEPT ![p] = Rejected(@, lastThrown')]
    /\ UNCHANGED <<serviceVars, harnessVars, dataServiceVars, processorVars, favorites,
                   wallClock>>

\* getArtMap returned its cached map
ArtMapCached(p) ==
    /\ pass[p].pc = "artMapCached"
    /\ artMapCache' = pass[p].awaited
    /\ pass' = [pass EXCEPT ![p] = CallGetCampMap(@, dsCampMapCache)]
    /\ UNCHANGED <<serviceVars, harnessVars, dataServiceVars, originalEvents, campMapCache,
                   favorites, wallClock, lastThrown>>

ArtIndexedResolves(p) ==
    /\ pass[p].pc = "artIndexed"
    /\ dsArtMapCache' = IndexedMap(world.art)
    /\ artMapCache' = dsArtMapCache'
    /\ pass' = [pass EXCEPT ![p] = CallGetCampMap(@, dsCampMapCache)]
    /\ UNCHANGED <<serviceVars, harnessVars, world, dsCampMapCache, originalEvents,
                   campMapCache, favorites, wallClock, lastThrown>>

\* loadData(ART_INDEXED) rejects: getArtMap catches and awaits loadArt()
ArtIndexedRejects(p) ==
    /\ pass[p].pc = "artIndexed"
    /\ lastThrown' = LoadError("ART_INDEXED")
    /\ pass' = [pass EXCEPT ![p] = [@ EXCEPT !.pc = "artFallback"]]
    /\ UNCHANGED <<serviceVars, harnessVars, dataServiceVars, processorVars, favorites,
                   wallClock>>

ArtFallbackResolves(p) ==
    /\ pass[p].pc = "artFallback"
    /\ dsArtMapCache' = FallbackMap(world.art)
    /\ artMapCache' = dsArtMapCache'
    /\ pass' = [pass EXCEPT ![p] = CallGetCampMap(@, dsCampMapCache)]
    /\ UNCHANGED <<serviceVars, harnessVars, world, dsCampMapCache, originalEvents,
                   campMapCache, favorites, wallClock, lastThrown>>

ArtFallbackRejects(p) ==
    /\ pass[p].pc = "artFallback"
    /\ lastThrown' = LoadError("ART")
    /\ pass' = [pass EXCEPT ![p] = Rejected(@, lastThrown')]
    /\ UNCHANGED <<serviceVars, harnessVars, dataServiceVars, processorVars, favorites,
                   wallClock>>

\* getCampMap returned its cached map
CampMapCached(p) ==
    /\ pass[p].pc = "campMapCached"
    /\ campMapCache' = pass[p].awaited
    /\ pass' = [pass EXCEPT ![p] = AfterMaps(@, artMapCache, campMapCache')]
    /\ UNCHANGED <<serviceVars, harnessVars, dataServiceVars, originalEvents, artMapCache,
                   favorites, wallClock, lastThrown>>

CampIndexedResolves(p) ==
    /\ pass[p].pc = "campIndexed"
    /\ dsCampMapCache' = IndexedMap(world.camps)
    /\ campMapCache' = dsCampMapCache'
    /\ pass' = [pass EXCEPT ![p] = AfterMaps(@, artMapCache, campMapCache')]
    /\ UNCHANGED <<serviceVars, harnessVars, world, dsArtMapCache, originalEvents,
                   artMapCache, favorites, wallClock, lastThrown>>

\* loadData(CAMPS_INDEXED) rejects: getCampMap catches and awaits loadCamps()
CampIndexedRejects(p) ==
    /\ pass[p].pc = "campIndexed"
    /\ lastThrown' = LoadError("CAMPS_INDEXED")
    /\ pass' = [pass EXCEPT ![p] = [@ EXCEPT !.pc = "campFallback"]]
    /\ UNCHANGED <<serviceVars, harnessVars, dataServiceVars, processorVars, favorites,
                   wallClock>>

CampFallbackResolves(p) ==
    /\ pass[p].pc = "campFallback"
    /\ dsCampMapCache' = FallbackMap(world.camps)
    /\ campMapCache' = dsCampMapCache'
    /\ pass' = [pass EXCEPT ![p] = AfterMaps(@, artMapCache, campMapCache')]
    /\ UNCHANGED <<serviceVars, harnessVars, world, dsArtMapCache, originalEvents,
                   artMapCache, favorites, wallClock, lastThrown>>

CampFallbackRejects(p) ==
    /\ pass[p].pc = "campFallback"
    /\ lastThrown' = LoadError("CAMPS")
    /\ pass' = [pass EXCEPT ![p] = Rejected(@, lastThrown')]
    /\ UNCHANGED <<serviceVars, harnessVars, dataServiceVars, processorVars, favorites,
                   wallClock>>

\* favoritesService.getFavoriteIds() resolves with a copy of the set
FavoriteIdsResolves(p) ==
    /\ pass[p].pc = "getFavoriteIds"
    /\ pass' = [pass EXCEPT ![p] =
                  RunLoops([@ EXCEPT !.favoriteIds = favorites], 1, 1,
                           artMapCache, campMapCache)]
    /\ UNCHANGED <<serviceVars, harnessVars, dataServiceVars, processorVars, favorites,
                   wallClock, lastThrown>>

\* resolveEventLocation resolves: the rest of the loop body for the
\* occurrence, then the loops up to the next await or the return
LocationResolves(p) ==
    /\ pass[p].pc = "resolveEventLocation"
    /\ pass' = [pass EXCEPT ![p] =
                  RunLoops(AfterLocation(@, originalEvents, wallClock),
                           @.i, @.j + 1, artMapCache, campMapCache)]
    /\ UNCHANGED <<serviceVars, harnessVars, dataServiceVars, processorVars, favorites,
                   wallClock, lastThrown>>

\* the passes that run on the shared eventProcessor
Passes == {1}

Next ==
    \E p \in Passes :
       \/ StartProcessEvents(p)
       \/ LoadEventsResolves(p)
       \/ LoadEventsRejects(p)
       \/ ArtMapCached(p)
       \/ ArtIndexedResolves(p)
       \/ ArtIndexedRejects(p)
       \/ ArtFallbackResolves(p)
       \/ ArtFallbackRejects(p)
       \/ CampMapCached(p)
       \/ CampIndexedResolves(p)
       \/ CampIndexedRejects(p)
       \/ CampFallbackResolves(p)
       \/ CampFallbackRejects(p)
       \/ FavoriteIdsResolves(p)
       \/ LocationResolves(p)

(***************************************************************************)
(* The worlds and search parameters of a pass.  Times are minutes; the     *)
(* longer look-ahead window ends one minute before MaxPassTime.            *)
(***************************************************************************)
PassRawTimes == {RawNone, RawBad} \cup {RawIso(t) : t \in 0..MaxPassTime}
CoarseRawTimes ==
    {RawNone, RawBad, RawIso(0), RawIso(PassNow + 1), RawIso(MaxPassTime)}
LongWindow == MaxPassTime - PassNow - 1
Occurrence(start_time, end_time) ==
    [start_time |-> start_time, end_time |-> end_time]
\* an occurrence that is SOON at PassNow and inside every window
SoonOccurrence == Occurrence(RawIso(PassNow + 1), RawIso(MaxPassTime))

RawEvent(uid, year, abbr, occurrence_set, art, camp, other) ==
    [uid |-> uid, year |-> year, title |-> <<"T", "e", "a">>,
     event_type |-> IF abbr = <<>> THEN Null ELSE [abbr |-> abbr],
     occurrence_set |-> occurrence_set, located_at_art |-> art,
     hosted_by_camp |-> camp, other_location |-> other]
PlainEvent(uid, occurrence_set) ==
    RawEvent(uid, defaultYear, <<"f", "o", "o", "d">>, occurrence_set, "", "", <<>>)

SearchParams(lat, lon, radius, window, now, eventTypes, active, upcoming,
             favoritesOnly) ==
    [lat |-> lat, lon |-> lon, radius |-> radius, window |-> window,
     year |-> Null, now |-> now, eventTypes |-> eventTypes,
     showOnlyActive |-> active, showOnlyUpcoming |-> upcoming,
     showOnlyFavorites |-> favoritesOnly]
TimeParams(window, active, upcoming) ==
    SearchParams(Null, Null, Null, Given(window), DateOf(PassNow), Null,
                 active, upcoming, FALSE)
PlaceParams(lat, lon, radius) ==
    SearchParams(lat, lon, radius, Null, DateOf(PassNow), Null,
                 FALSE, FALSE, FALSE)

Scenario(events, searchParams, favs, warm) ==
    [events |-> events, searchParams |-> searchParams, favorites |-> favs,
     warm |-> warm]

\* one event with one occurrence, every start and end, both windows, the two
\* status switches
TimeScenarios ==
    {Scenario(<<PlainEvent("e1", <<Occurrence(st, en)>>)>>,
              TimeParams(w, a, u), {}, FALSE) :
        st \in PassRawTimes, en \in PassRawTimes,
        w \in {ShortWindow, LongWindow}, a \in BOOLEAN, u \in BOOLEAN}

\* an event with two occurrences followed by last year's event
RecurringScenarios ==
    {Scenario(<<PlainEvent("e1", <<Occurrence(s1, e1), Occurrence(s2, e2)>>),
                RawEvent("e2", defaultYear - 1, <<"f", "o", "o", "d">>, <<SoonOccurrence>>,
                         "", "", <<>>)>>,
              TimeParams(ShortWindow, FALSE, FALSE), {}, FALSE) :
        s1 \in CoarseRawTimes, e1 \in CoarseRawTimes,
        s2 \in CoarseRawTimes, e2 \in CoarseRawTimes}

\* the radius at which the art with GPS, and the camp at 6:00 & D, is exactly
\* on the edge for a viewer at the Man
ArtDistance == ArcLength(NearbyMicroDegrees)
CampDistance == coordOf(ADDR_INTERSECTION).v.lat.distanceM
PlaceFields ==
    {<<a, c, <<>>>> : a \in ArtRefs \ {"artNullIsland"},
                      c \in {"", "campIntersection"}}
    \cup {<<"", c, o>> : c \in CampRefs, o \in OtherLocations}
Viewers == {<<Null, Null>>, <<NaN, MAN.lon>>, <<MAN.lat, MAN.lon>>}
PlaceScenarios ==
    {Scenario(<<RawEvent("e1", defaultYear, <<"f", "o", "o", "d">>, <<SoonOccurrence>>,
                         f[1], f[2], f[3])>>,
              PlaceParams(v[1], v[2], r), {}, FALSE) :
        f \in PlaceFields, v \in Viewers,
        r \in {Null, Given(ArtDistance), Given(CampDistance)}}

\* art whose GPS is 0, 0 and a viewer due north of it
NullIslandScenarios ==
    {Scenario(<<RawEvent("e1", defaultYear, <<"f", "o", "o", "d">>, <<SoonOccurrence>>,
                         "artNullIsland", "", <<>>)>>,
              PlaceParams(v[1], v[2], r), {}, FALSE) :
        v \in {<<Null, Null>>, <<Num(NearbyMicroDegrees), Num(0)>>},
        r \in {Null, Given(ArtDistance)}}

\* favourites, event types, venue maps already cached, now left out
OtherScenarios ==
    {Scenario(<<RawEvent("e1", defaultYear, abbr, <<SoonOccurrence>>,
                         "artGps", "", <<>>)>>,
              SearchParams(Null, Null, Null, Null, now, types, FALSE, FALSE,
                           favoritesOnly),
              favs, warm) :
        abbr \in {<<"f", "o", "o", "d">>, <<>>},
        now \in {Null, DateOf(PassNow)},
        types \in {Null, Given({<<"f", "o", "o", "d">>}), Given({<<"o", "t", "h", "r">>})},
        favoritesOnly \in BOOLEAN,
        favs \in {{}, {[uid |-> "e1", start_time |-> RawIso(PassNow + 1)]}},
        warm \in BOOLEAN}

\* an event of each of the eight types or of none, and eventTypes left out,
\* empty, or holding one abbreviation
TypeScenarios ==
    {Scenario(<<RawEvent("e1", defaultYear, abbr, <<SoonOccurrence>>,
                         "", "", <<>>)>>,
              SearchParams(Null, Null, Null, Null, DateOf(PassNow), types,
                           FALSE, FALSE, FALSE),
              {}, FALSE) :
        abbr \in DefaultEventTypes \cup {<<>>},
        types \in {Null, Given({}), Given({<<"f", "o", "o", "d">>}), Given({<<"o", "t", "h", "r">>})}}

Scenarios ==
    TimeScenarios \cup RecurringScenarios \cup PlaceScenarios
        \cup NullIslandScenarios \cup OtherScenarios \cup TypeScenarios

Init ==
    /\ HarnessIdle
    /\ ServicesIdle
    /\ \E sc \in Scenarios :
          /\ world = [events |-> sc.events, art |-> ArtVenues,
                      camps |-> CampVenues]
          /\ dsArtMapCache = IF sc.warm THEN IndexedMap(ArtVenues) ELSE Null
          /\ dsCampMapCache = IF sc.warm THEN IndexedMap(CampVenues) ELSE Null
          /\ favorites = sc.favorites
          /\ pass = <<NewPass(sc.searchParams)>>
    /\ originalEvents = <<>>
    /\ artMapCache = Null
    /\ campMapCache = Null
    /\ wallClock = PassNow
    /\ lastThrown = Null

Spec == Init /\ [][Next]_vars

(***************************************************************************)
(* The processor in its environment.  In the favourites specification the  *)
(* user adds and removes favourites while a pass runs; in the clock        *)
(* specification the device clock advances and the caller calls            *)
(* processEvents again, with the same searchParams, once it has returned.  *)
(***************************************************************************)
MaxClockDays == 1    \* the device clock advances over 0..MaxClockDays days

PassStep(p) ==
    \/ StartProcessEvents(p)
    \/ LoadEventsResolves(p)
    \/ LoadEventsRejects(p)
    \/ ArtMapCached(p)
    \/ ArtIndexedResolves(p)
    \/ ArtIndexedRejects(p)
    \/ ArtFallbackResolves(p)
    \/ ArtFallbackRejects(p)
    \/ CampMapCached(p)
    \/ CampIndexedResolves(p)
    \/ CampIndexedRejects(p)
    \/ CampFallbackResolves(p)
    \/ CampFallbackRejects(p)
    \/ FavoriteIdsResolves(p)
    \/ LocationResolves(p)

\* processEvents is called again with the searchParams of the call that
\* returned
CallProcessEventsAgain(p) ==
    /\ pass[p].pc = "returned"
    /\ pass[p].previous = Null
    /\ pass' = [pass EXCEPT ![p] =
                  [NewPass(pass[p].searchParams) EXCEPT !.previous =
                      [processedEvents |-> pass[p].processedEvents,
                       favoriteIds |-> pass[p].favoriteIds,
                       params |-> pass[p].params]]]
    /\ UNCHANGED <<serviceVars, harnessVars, dataServiceVars, processorVars, favorites,
                   wallClock, lastThrown>>

\* the instants at which the device clock is read
ClockInstants ==
    {PassNow} \cup {PassNow + 2 + d * MinutesPerDay : d \in 0..MaxClockDays}
TimePasses ==
    /\ \E t \in ClockInstants : t > wallClock /\ wallClock' = t
    /\ UNCHANGED <<serviceVars, harnessVars, dataServiceVars, processorVars, favorites,
                   lastThrown, pass>>

\* FavoritesService.addFavorite and removeFavorite, as far as the id set
AddFavorite(id) ==
    /\ id \notin favorites
    /\ favorites' = favorites \cup {id}
    /\ UNCHANGED <<serviceVars, harnessVars, dataServiceVars, processorVars, wallClock,
                   lastThrown, pass>>
RemoveFavorite(id) ==
    /\ id \in favorites
    /\ favorites' = favorites \ {id}
    /\ UNCHANGED <<serviceVars, harnessVars, dataServiceVars, processorVars, wallClock,
                   lastThrown, pass>>

\* an event of three occurrences: one that is SOON at PassNow, and two that
\* start in the past, at the same minute as the first, or 1, 3, 7 or 8 days
\* after it (a Friday, a Sunday, the next Thursday and Friday), or never
DaysLater == {1, 3, 7, 8}
OccurrenceAt(t) == Occurrence(RawIso(t), RawIso(t + 2 * timeFilterBuffer))
OtherOccurrences ==
    {Occurrence(RawBad, RawIso(MaxPassTime)), OccurrenceAt(0),
     OccurrenceAt(PassNow + 1)}
    \cup {OccurrenceAt(PassNow + 1 + d * MinutesPerDay) : d \in DaysLater}
SoonId == [uid |-> "e1", start_time |-> RawIso(PassNow + 1)]
PastId == [uid |-> "e1", start_time |-> RawIso(0)]
FavoriteCandidates == {SoonId, PastId}

\* the passes of the favourites specification: two admitted occurrences, of
\* which the user has favourited none or the first
FavoritesScenarios ==
    {Scenario(<<PlainEvent("e1", <<SoonOccurrence, OccurrenceAt(0)>>)>>,
              SearchParams(Null, Null, Null, Null, DateOf(PassNow), Null,
                           FALSE, FALSE, favoritesOnly),
              favs, warm) :
        favoritesOnly \in BOOLEAN, favs \in {{}, {SoonId}}, warm \in BOOLEAN}

\* the passes of the clock specification: now given or left out
ClockScenarios ==
    {Scenario(<<PlainEvent("e1", <<SoonOccurrence, o[1], o[2]>>)>>,
              SearchParams(Null, Null, Null, Null, now, Null, FALSE, FALSE,
                           FALSE),
              {}, FALSE) :
        o \in OtherOccurrences \X OtherOccurrences,
        now \in {Null, DateOf(PassNow)}}
    \cup {Scenario(<<PlainEvent("e1", <<SoonOccurrence>>)>>,
                   SearchParams(Null, Null, Null, Null, DateOf(PassNow), Null,
                                FALSE, FALSE, favoritesOnly),
                   {SoonId}, FALSE) : favoritesOnly \in BOOLEAN}

\* the state a scenario starts from
InitOf(scenarios) ==
    /\ HarnessIdle
    /\ ServicesIdle
    /\ \E sc \in scenarios :
          /\ world = [events |-> sc.events, art |-> ArtVenues,
                      camps |-> CampVenues]
          /\ favorites = sc.favorites
          /\ dsArtMapCache = IF sc.warm THEN IndexedMap(ArtVenues) ELSE Null
          /\ dsCampMapCache = IF sc.warm THEN IndexedMap(CampVenues) ELSE Null
          /\ pass = <<NewPass(sc.searchParams)>>
    /\ originalEvents = <<>>
    /\ artMapCache = Null
    /\ campMapCache = Null
    /\ wallClock = PassNow
    /\ lastThrown = Null

InitFavorites == InitOf(FavoritesScenarios)

NextFavorites ==
    \/ \E p \in Passes : PassStep(p)
    \/ \E id \in FavoriteCandidates : AddFavorite(id) \/ RemoveFavorite(id)

SpecFavorites == InitFavorites /\ [][NextFavorites]_vars

InitClock == InitOf(ClockScenarios)

NextClock ==
    \/ \E p \in Passes : PassStep(p) \/ CallProcessEventsAgain(p)
    \/ TimePasses

SpecClock == InitClock /\ [][NextClock]_vars

(***************************************************************************)
(* What the claims about a pass share: the occurrences of the loaded       *)
(* events in loop order, and the records a pass pushed for one of them.    *)
(***************************************************************************)
RECURSIVE Occurrences(_)
Occurrences(events) ==
    IF events = <<>> THEN <<>>
    ELSE [n \in DOMAIN Head(events).occurrence_set |->
             [event |-> Head(events),
              occurrence |-> Head(events).occurrence_set[n]]]
         \o Occurrences(Tail(events))
LoadedOccurrences(st) ==
    Occurrences(SelectSeq(world.events, LAMBDA e : e.year = st.params.year))
RecordsOf(st, x) ==
    {k \in DOMAIN st.processedEvents :
        /\ st.processedEvents[k].id = EventId(x.event, x.occurrence)
        /\ st.processedEvents[k].end = ParseOrNull(x.occurrence.end_time)}
\* no filter after the time window can skip an occurrence of x's event
OnlyTimeFilters(st, x) ==
    /\ ~hasGPS(st.params)
    /\ TypeAbbr(x.event) \in st.params.eventTypes
    /\ ~st.params.showOnlyActive
    /\ ~st.params.showOnlyUpcoming
    /\ ~st.params.showOnlyFavorites
\* none but the distance filter can
OnlyDistanceFilter(st, x) ==
    /\ TypeAbbr(x.event) \in st.params.eventTypes
    /\ ~st.params.showOnlyActive
    /\ ~st.params.showOnlyUpcoming
    /\ ~st.params.showOnlyFavorites

(***************************************************************************)
(* C2.  Of the occurrences whose start and end are both present and valid  *)
(* dates, processEvents admits to the later filters exactly those with     *)
(* start <= now <= end and end - now >= 15 min, or with now < start and    *)
(* start <= now + timeWindowMinutes: every other one is absent from the    *)
(* output whatever the other filters are, and when no other filter applies *)
(* the output holds exactly the admitted ones, in order.  A start of       *)
(* exactly now + timeWindowMinutes is admitted, one minute later is not.   *)
(***************************************************************************)
C2_Valid(occurrence) ==
    occurrence.start_time.k = "iso" /\ occurrence.end_time.k = "iso"
C2_Admits(occurrence, now, timeWindow) ==
    \/ /\ occurrence.start_time.t <= now
       /\ now <= occurrence.end_time.t
       /\ occurrence.end_time.t - now >= 15
    \/ /\ now < occurrence.start_time.t
       /\ occurrence.start_time.t <= now + timeWindow
C2_AdmitsFor(st, x) ==
    /\ C2_Valid(x.occurrence)
    /\ C2_Admits(x.occurrence, getTime(st.params.now).v, st.params.timeWindow)
\* what identifies the record of an occurrence
C2_Key(id, start, end) == <<id, start, end>>
\* the keys of the records the occurrences xs are to give
C2_KeysOf(xs) ==
    [k \in DOMAIN xs |->
        C2_Key(EventId(xs[k].event, xs[k].occurrence),
               NewDate(xs[k].occurrence.start_time),
               NewDate(xs[k].occurrence.end_time))]
\* the keys of the records that have valid dates
C2_ValidKeys(processedEvents) ==
    SelectSeq([k \in DOMAIN processedEvents |->
                  C2_Key(processedEvents[k].id, processedEvents[k].start,
                         processedEvents[k].end)],
              LAMBDA key : IsNum(getTime(key[2])) /\ IsNum(getTime(key[3])))

C2_TimeWindowAdmission ==
    \A p \in DOMAIN pass :
       LET st == pass[p]
       IN  /\ st.pc = "resolveEventLocation" =>
                 \A x \in {[event |-> st.events[st.i],
                            occurrence |->
                                st.events[st.i].occurrence_set[st.j]]} :
                    C2_Valid(x.occurrence) => C2_AdmitsFor(st, x)
           /\ st.pc = "returned" =>
                 \A all \in {LoadedOccurrences(st)} :
                    /\ \A n \in DOMAIN all :
                          (C2_Valid(all[n].occurrence) /\ ~C2_AdmitsFor(st, all[n]))
                             => RecordsOf(st, all[n]) = {}
                    /\ (\A n \in DOMAIN all : OnlyTimeFilters(st, all[n])) =>
                          C2_ValidKeys(st.processedEvents)
                          = C2_KeysOf(SelectSeq(all,
                                                LAMBDA x : C2_AdmitsFor(st, x)))

\* an occurrence that starts exactly at the end of the window is in the output
C2_Witness ==
    \E p \in DOMAIN pass :
       /\ pass[p].pc = "returned"
       /\ \E k \in DOMAIN pass[p].processedEvents :
             /\ pass[p].processedEvents[k].start
                   = DateOf(PassNow + pass[p].params.timeWindow)
             /\ pass[p].processedEvents[k].status = "UPCOMING"

(***************************************************************************)
(* C3.  For every admitted occurrence: when the viewer location is present *)
(* (finite lat and lon) and the resolved location has a coordinate (any    *)
(* numeric latitude and longitude), the distance is computed and the       *)
(* occurrence is dropped iff distance > radius, a distance equal to the    *)
(* radius being kept; when the viewer location or the resolved coordinate  *)
(* is absent, the occurrence is never dropped for distance and its         *)
(* distance is null.  (Stated for passes in which no other filter can drop *)
(* the occurrence.)                                                        *)
(***************************************************************************)
C3_IsCoordinate(locationInfo) ==
    /\ locationInfo.lat.k \in {"num", "proj"}
    /\ locationInfo.lon.k \in {"num", "proj"}
C3_DistanceRule(st, x, locationInfo, hasCoordinate) ==
    IF hasGPS(st.params) /\ hasCoordinate
    THEN \A d \in {haversineMeters(st.params.lat, st.params.lon,
                                   locationInfo.lat, locationInfo.lon)} :
            /\ RecordsOf(st, x) # {} <=> d.v <= st.params.radius
            /\ \A k \in RecordsOf(st, x) : st.processedEvents[k].distance = d
    ELSE /\ RecordsOf(st, x) # {}
         /\ \A k \in RecordsOf(st, x) : st.processedEvents[k].distance = Null
C3_FilterWith(HasCoordinate(_)) ==
    \A p \in DOMAIN pass :
       pass[p].pc = "returned" =>
          \A all \in {LoadedOccurrences(pass[p])} :
             \A n \in DOMAIN all :
                (Admitted(all[n].occurrence, pass[p].params)
                 /\ OnlyDistanceFilter(pass[p], all[n]))
                   => \A locationInfo \in
                            {resolveEventLocation(all[n].event, artMapCache,
                                                  campMapCache)} :
                         C3_DistanceRule(pass[p], all[n], locationInfo,
                                         HasCoordinate(locationInfo))

C3_DistanceFilter == C3_FilterWith(C3_IsCoordinate)

\* What holds instead: the rule with "has a coordinate" read as "latitude
\* and longitude are both truthy", which a latitude or longitude of 0 is not.
C3_IsTruthyCoordinate(locationInfo) ==
    Truthy(locationInfo.lat) /\ Truthy(locationInfo.lon)
C3_DistanceFilterOfTruthy == C3_FilterWith(C3_IsTruthyCoordinate)

\* a viewer with GPS, a resolved coordinate of 0, 0 farther away than the
\* radius, and the occurrence in the output with no distance
C3_Witness ==
    \E p \in DOMAIN pass :
       /\ pass[p].pc = "returned"
       /\ hasGPS(pass[p].params)
       /\ pass[p].params.radius < ArtDistance
       /\ \E k \in DOMAIN pass[p].processedEvents :
             /\ pass[p].processedEvents[k].lat = Num(0)
             /\ pass[p].processedEvents[k].lon = Num(0)
             /\ pass[p].processedEvents[k].distance = Null

(***************************************************************************)
(* C4.  processEvents emits no ProcessedEvent for an occurrence whose      *)
(* start_time or end_time is missing or does not parse to a valid date,    *)
(* whatever the other timestamp, the time window and the filters are, and  *)
(* it does not raise because of such an occurrence: a pass rejects only    *)
(* with the error of a failed load.                                        *)
(***************************************************************************)
C4_ValidDate(d) == d # Null /\ IsNum(getTime(d))
C4_InvalidOccurrencesSkipped ==
    \A p \in DOMAIN pass :
       /\ \A k \in DOMAIN pass[p].processedEvents :
             /\ C4_ValidDate(pass[p].processedEvents[k].start)
             /\ C4_ValidDate(pass[p].processedEvents[k].end)
       /\ pass[p].pc = "rejected" => pass[p].error.k = "error"

\* What holds instead: every record has a valid start, and an invalid end
\* only from an occurrence whose end_time is present but does not parse.
C4_OnlyUnparseableEndEmitted ==
    \A p \in DOMAIN pass :
       \A k \in DOMAIN pass[p].processedEvents :
          /\ C4_ValidDate(pass[p].processedEvents[k].start)
          /\ ~C4_ValidDate(pass[p].processedEvents[k].end) =>
                \E x \in Range(LoadedOccurrences(pass[p])) :
                   /\ x.occurrence.end_time = RawBad
                   /\ x.occurrence.start_time.k = "iso"
                   /\ EventId(x.event, x.occurrence)
                         = pass[p].processedEvents[k].id

\* an occurrence with an unparseable end_time is in the output
C4_Witness ==
    \E p \in DOMAIN pass :
       /\ pass[p].pc = "returned"
       /\ \E k \in DOMAIN pass[p].processedEvents :
             /\ pass[p].processedEvents[k].end = InvalidDate
             /\ pass[p].processedEvents[k].status \in {"SOON", "UPCOMING"}

(***************************************************************************)
(* C6.  For every camp location string and every other_location string,    *)
(* an address the geocoder cannot resolve to a coordinate never makes      *)
(* processEvents reject: the occurrence is still emitted (if it passes the *)
(* filters) with lat and lon null, distance null, and a label carrying the *)
(* raw string.                                                             *)
(***************************************************************************)
C6_Resolves(address) ==
    /\ coordOf(address).k = "ok"
    /\ coordOf(address).v.lat.k \in {"num", "proj"}
    /\ coordOf(address).v.lon.k \in {"num", "proj"}
\* the address resolveEventLocation geocodes for the event, <<>> if none
C6_AddressOf(event, art, camp) ==
    IF art # Null THEN <<>>
    ELSE IF camp # Null /\ camp.location_string # <<>> THEN camp.location_string
    ELSE event.other_location
C6_LabelOnly(record, address) ==
    /\ record.lat = Null
    /\ record.lon = Null
    /\ record.distance = Null
    /\ includes(record.locLabel, address)

C6_EmittedLabelOnlyWhen(Unresolved(_)) ==
    \A p \in DOMAIN pass :
       /\ pass[p].pc = "rejected" => pass[p].error.k = "error"
       /\ pass[p].pc = "returned" =>
             \A all \in {LoadedOccurrences(pass[p])} :
                \A n \in DOMAIN all :
                   \A address \in {C6_AddressOf(all[n].event,
                                      Lookup(artMapCache,
                                             all[n].event.located_at_art),
                                      Lookup(campMapCache,
                                             all[n].event.hosted_by_camp))} :
                      (/\ Admitted(all[n].occurrence, pass[p].params)
                       /\ OnlyDistanceFilter(pass[p], all[n])
                       /\ address # <<>>
                       /\ Unresolved(address))
                         => /\ RecordsOf(pass[p], all[n]) # {}
                            /\ \A k \in RecordsOf(pass[p], all[n]) :
                                  C6_LabelOnly(pass[p].processedEvents[k],
                                               address)
C6_Unresolved(address) == ~C6_Resolves(address)

C6_UnresolvedAddressEmitted == C6_EmittedLabelOnlyWhen(C6_Unresolved)

\* What holds instead: the same for the addresses coordOf throws on.
C6_Throws(address) == coordOf(address).k = "throw"
C6_ThrowingAddressEmitted == C6_EmittedLabelOnlyWhen(C6_Throws)

\* the occurrence of a camp at "a:b & D" is in the output with NaN for its
\* latitude and longitude
C6_Witness ==
    \E p \in DOMAIN pass :
       /\ pass[p].pc = "returned"
       /\ \E k \in DOMAIN pass[p].processedEvents :
             /\ pass[p].processedEvents[k].lat = NaN
             /\ pass[p].processedEvents[k].lon = NaN
             /\ pass[p].processedEvents[k].locLabel
                   = <<"@", " ", "[">> \o ADDR_BAD_CLOCK \o <<"]">>

(***************************************************************************)
(* C7.  If the data loader fails while processEvents loads the events, or  *)
(* the art or camp map after the map's own fallback load also fails,       *)
(* processEvents rejects with that same error and returns no list, not     *)
(* even a partial one; a failure of the first, indexed load of a map alone *)
(* does not reject.  A pass ends either rejected or with its list.         *)
(***************************************************************************)
C7_FatalErrors == {LoadError("EVENTS"), LoadError("ART"), LoadError("CAMPS")}
C7_LoaderFailureRejects ==
    \A p \in DOMAIN pass :
       /\ lastThrown \in C7_FatalErrors <=> pass[p].pc = "rejected"
       /\ pass[p].pc = "rejected" =>
             /\ pass[p].error = lastThrown
             /\ pass[p].processedEvents = <<>>
       /\ pass[p].pc = "returned" => pass[p].error = Null

\* the indexed art load failed, then the fallback load failed too
C7_Witness ==
    \E p \in DOMAIN pass :
       /\ pass[p].pc = "rejected"
       /\ pass[p].error = LoadError("ART")
       /\ lastThrown = LoadError("ART")
       /\ pass[p].processedEvents = <<>>

(***************************************************************************)
(* C12.  In the list a pass returns: with showOnlyActive every record has  *)
(* status NOW; with showOnlyUpcoming no record has status NOW or ENDED;    *)
(* with both the list is empty.  Where no filter but the status switches   *)
(* can drop it, an admitted occurrence is in the list iff its status       *)
(* passes the switches that are set, so with neither set it always is.     *)
(***************************************************************************)
C12_StatusOf(st, occurrence) ==
    determineEventStatus(NewDate(occurrence.start_time),
                         NewDate(occurrence.end_time), st.params.now)
C12_PassesSwitches(st, status) ==
    /\ st.params.showOnlyActive => status = "NOW"
    /\ st.params.showOnlyUpcoming => status \notin {"NOW", "ENDED"}
\* no filter but the status switches can skip an occurrence of x's event
C12_OnlyStatusFilters(st, x) ==
    /\ ~hasGPS(st.params)
    /\ TypeAbbr(x.event) \in st.params.eventTypes
    /\ ~st.params.showOnlyFavorites

C12_StatusFilters ==
    \A p \in DOMAIN pass :
       pass[p].pc = "returned" =>
          /\ \A k \in DOMAIN pass[p].processedEvents :
                C12_PassesSwitches(pass[p], pass[p].processedEvents[k].status)
          /\ (pass[p].params.showOnlyActive /\ pass[p].params.showOnlyUpcoming)
                => pass[p].processedEvents = <<>>
          /\ \A all \in {LoadedOccurrences(pass[p])} :
                \A n \in DOMAIN all :
                   (Admitted(all[n].occurrence, pass[p].params)
                    /\ C12_OnlyStatusFilters(pass[p], all[n]))
                      => (RecordsOf(pass[p], all[n]) # {}
                          <=> C12_PassesSwitches(pass[p],
                                 C12_StatusOf(pass[p], all[n].occurrence)))

\* with showOnlyActive alone, an admitted occurrence that is SOON was dropped
\* and the list is empty
C12_Witness ==
    \E p \in DOMAIN pass :
       /\ pass[p].pc = "returned"
       /\ pass[p].params.showOnlyActive
       /\ ~pass[p].params.showOnlyUpcoming
       /\ pass[p].processedEvents = <<>>
       /\ \E x \in Range(LoadedOccurrences(pass[p])) :
             /\ Admitted(x.occurrence, pass[p].params)
             /\ C12_StatusOf(pass[p], x.occurrence) = "SOON"

(***************************************************************************)
(* C13 as stated.  With showOnlyFavorites, a pass emits exactly the        *)
(* admitted occurrences whose id (event uid and raw start_time) was in the *)
(* favourite ids when the pass started: what is added or removed while the *)
(* pass is suspended at any of its awaits does not change its list.        *)
(***************************************************************************)
\* the list of st holds the admitted occurrences with an id in ids, no other
C13_EmitsFavoritesOf(st, ids) ==
    /\ \A k \in DOMAIN st.processedEvents : st.processedEvents[k].id \in ids
    /\ \A all \in {LoadedOccurrences(st)} :
          \A n \in DOMAIN all :
             Admitted(all[n].occurrence, st.params) =>
                (RecordsOf(st, all[n]) # {}
                 <=> EventId(all[n].event, all[n].occurrence) \in ids)

C13_FavoritesAsOfCall ==
    \A p \in DOMAIN pass :
       (pass[p].pc = "returned" /\ pass[p].params.showOnlyFavorites) =>
          C13_EmitsFavoritesOf(pass[p], pass[p].favoritesAtCall)

(***************************************************************************)
(* C13 as amended.  With showOnlyFavorites, the favourite ids are read     *)
(* once, at the await of getFavoriteIds that follows the loads of the      *)
(* events and the venue maps; the pass emits exactly the admitted          *)
(* occurrences whose id is in the set read then, whatever is added or      *)
(* removed afterwards.  Without showOnlyFavorites the store is never read  *)
(* and every admitted occurrence is emitted, whatever the favourites are.  *)
(***************************************************************************)
C13_Returned(st) ==
    IF st.params.showOnlyFavorites
    THEN C13_EmitsFavoritesOf(st, st.favoriteIds)
    ELSE /\ st.favoriteIds = Null
         /\ \A all \in {LoadedOccurrences(st)} :
               \A n \in DOMAIN all :
                  Admitted(all[n].occurrence, st.params) =>
                     RecordsOf(st, all[n]) # {}

C13_FavoritesSnapshot ==
    [][\A p \in DOMAIN pass :
          /\ IF pass[p].pc = "getFavoriteIds" /\ pass'[p].pc # "getFavoriteIds"
             THEN pass[p].favoriteIds = Null /\ pass'[p].favoriteIds = favorites
             ELSE pass'[p].favoriteIds = pass[p].favoriteIds
          /\ pass'[p].pc = "returned" => C13_Returned(pass'[p])]_vars

\* a favourite added while the pass awaited its loads is in the list, and one
\* added after the read is not
C13_Witness ==
    \E p \in DOMAIN pass :
       /\ pass[p].pc = "returned"
       /\ pass[p].params.showOnlyFavorites
       /\ pass[p].favoritesAtCall = {}
       /\ pass[p].favoriteIds = {SoonId}
       /\ favorites = {SoonId, PastId}
       /\ Len(pass[p].processedEvents) = 1
       /\ pass[p].processedEvents[1].id = SoonId

(***************************************************************************)
(* C14.  An admitted occurrence that no other filter drops is dropped iff  *)
(* its event's type abbreviation, 'othr' for an event without event_type,  *)
(* is not in eventTypes; every record's abbreviation is in eventTypes.     *)
(* With eventTypes left out the eight abbreviations are accepted, so an    *)
(* occurrence of any of the eight types or of none is never dropped for    *)
(* its type.                                                               *)
(***************************************************************************)
C14_AllEight ==
    {<<"p", "r", "t", "y">>, <<"f", "o", "o", "d">>, <<"t", "e", "a">>, <<"a", "r", "t", "s">>,
     <<"w", "o", "r", "k">>, <<"k", "i", "d">>, <<"a", "d", "l", "t">>, <<"o", "t", "h", "r">>}
C14_Abbr(event) ==
    IF event.event_type = Null THEN <<"o", "t", "h", "r">> ELSE event.event_type.abbr
C14_Accepted(searchParams) ==
    IF searchParams.eventTypes = Null THEN C14_AllEight
    ELSE searchParams.eventTypes.v
\* no filter but the type filter can skip an occurrence
C14_OnlyTypeFilter(st) ==
    /\ ~hasGPS(st.params)
    /\ ~st.params.showOnlyActive
    /\ ~st.params.showOnlyUpcoming
    /\ ~st.params.showOnlyFavorites

C14_TypeFilter ==
    \A p \in DOMAIN pass :
       pass[p].pc = "returned" =>
          /\ \A k \in DOMAIN pass[p].processedEvents :
                pass[p].processedEvents[k].typeAbbr
                   \in C14_Accepted(pass[p].searchParams)
          /\ \A all \in {LoadedOccurrences(pass[p])} :
                \A n \in DOMAIN all :
                   (Admitted(all[n].occurrence, pass[p].params)
                    /\ C14_OnlyTypeFilter(pass[p]))
                      => /\ RecordsOf(pass[p], all[n]) # {}
                            <=> C14_Abbr(all[n].event)
                                   \in C14_Accepted(pass[p].searchParams)
                         /\ pass[p].searchParams.eventTypes = Null
                               => RecordsOf(pass[p], all[n]) # {}

\* an event without event_type is emitted as 'othr' when eventTypes is
\* {'othr'}
C14_Witness ==
    \E p \in DOMAIN pass :
       /\ pass[p].pc = "returned"
       /\ pass[p].searchParams.eventTypes = Given({<<"o", "t", "h", "r">>})
       /\ pass[p].events # <<>>
       /\ pass[p].events[1].event_type = Null
       /\ Len(pass[p].processedEvents) = 1
       /\ pass[p].processedEvents[1].typeAbbr = <<"o", "t", "h", "r">>

(***************************************************************************)
(* C15.  Two calls of processEvents with the same dataset, venue maps,     *)
(* favourite ids and search parameters, the same explicit now among them,  *)
(* return identical lists, whatever the device clock reads during each.    *)
(***************************************************************************)
\* the call before this one read the same favourite ids
C15_SameInputs(st) ==
    /\ st.pc = "returned"
    /\ st.previous # Null
    /\ st.searchParams.now # Null
    /\ st.previous.params = st.params
    /\ st.previous.favoriteIds = st.favoriteIds

C15_SameListForSameInputs ==
    \A p \in DOMAIN pass :
       C15_SameInputs(pass[p]) =>
          pass[p].processedEvents = pass[p].previous.processedEvents

\* What holds instead: the two lists are identical apart from the
\* futureOccurrences of their records, which follows the device clock.
C15_WithoutFutureOccurrences(processedEvents) ==
    [k \in DOMAIN processedEvents |->
        [processedEvents[k] EXCEPT !.futureOccurrences = <<>>]]
C15_SameApartFromFutureOccurrences ==
    \A p \in DOMAIN pass :
       C15_SameInputs(pass[p]) =>
          C15_WithoutFutureOccurrences(pass[p].processedEvents)
          = C15_WithoutFutureOccurrences(pass[p].previous.processedEvents)

\* the second of two calls with the same now returned after the clock had
\* advanced, with another futureOccurrences in a record
C15_Witness ==
    \E p \in DOMAIN pass :
       /\ C15_SameInputs(pass[p])
       /\ Len(pass[p].processedEvents) = Len(pass[p].previous.processedEvents)
       /\ \E k \in DOMAIN pass[p].processedEvents :
             /\ pass[p].processedEvents[k].id
                   = pass[p].previous.processedEvents[k].id
             /\ pass[p].processedEvents[k].futureOccurrences
                   # pass[p].previous.processedEvents[k].futureOccurrences

(***************************************************************************)
(* C16 as stated.  The record emitted for an occurrence of an event with   *)
(* more than one occurrence has, as futureOccurrences, the weekday         *)
(* abbreviations of the event's other occurrences that start after the     *)
(* device clock's time (not the now of the call), each once, in the order  *)
(* Su, M, Tu, W, Th, F, S; the record of an event with one occurrence has  *)
(* an empty futureOccurrences and isRecurring false.                       *)
(***************************************************************************)
C16_Weekdays == <<"Su", "M", "Tu", "W", "Th", "F", "S">>
\* the weekday of minute t: minute 0 is the start of a Thursday
C16_WeekdayOf(t) == C16_Weekdays[((t \div MinutesPerDay + 4) % 7) + 1]
\* the weekdays, in week order, of the occurrences Other holds of that start
\* after clock
C16_DaysOf(occurrence_set, clock, Other(_)) ==
    SelectSeq(C16_Weekdays,
              LAMBDA day :
                 \E n \in DOMAIN occurrence_set :
                    /\ Other(n)
                    /\ occurrence_set[n].start_time.k = "iso"
                    /\ occurrence_set[n].start_time.t > clock
                    /\ C16_WeekdayOf(occurrence_set[n].start_time.t) = day)
\* the record a step appended is that of occurrence j of the event, with the
\* futureOccurrences of the occurrences Other holds of
C16_Recorded(record, occurrence_set, expected) ==
    /\ record.isRecurring = (Len(occurrence_set) > 1)
    /\ record.futureOccurrences
          = IF Len(occurrence_set) > 1 THEN expected ELSE <<>>
C16_AppendedWith(Other(_, _, _)) ==
    \A p \in DOMAIN pass :
       Len(pass'[p].processedEvents) = Len(pass[p].processedEvents) + 1 =>
          \A occurrence_set \in {pass[p].events[pass[p].i].occurrence_set} :
             C16_Recorded(
                pass'[p].processedEvents[Len(pass'[p].processedEvents)],
                occurrence_set,
                C16_DaysOf(occurrence_set, wallClock,
                           LAMBDA n : Other(occurrence_set, pass[p].j, n)))

C16_OtherOccurrence(occurrence_set, j, n) == n # j
C16_FutureOccurrences == [][C16_AppendedWith(C16_OtherOccurrence)]_vars

(***************************************************************************)
(* C16 as amended.  The same, the other occurrences of the event being     *)
(* those whose start differs from the start of the emitted occurrence.     *)
(***************************************************************************)
C16_OtherStart(occurrence_set, j, n) ==
    NewDate(occurrence_set[n].start_time) # NewDate(occurrence_set[j].start_time)
C16_FutureOccurrencesOfOtherStarts == [][C16_AppendedWith(C16_OtherStart)]_vars

\* a record whose futureOccurrences names two days in week order that the
\* occurrence set holds in the other order, while the clock is past the now
\* of the call
C16_Witness ==
    \E p \in DOMAIN pass :
       /\ pass[p].pc = "returned"
       /\ pass[p].searchParams.now # Null
       /\ wallClock > PassNow
       /\ \E k \in DOMAIN pass[p].processedEvents :
             /\ pass[p].processedEvents[k].isRecurring
             /\ pass[p].processedEvents[k].futureOccurrences = <<"Su", "Th">>
       /\ pass[p].events[1].occurrence_set[2].start_time
             = RawIso(PassNow + 1 + 7 * MinutesPerDay)
       /\ pass[p].events[1].occurrence_set[3].start_time
             = RawIso(PassNow + 1 + 3 * MinutesPerDay)

(***************************************************************************)
(* C17.  coordOf returns a coordinate only for a string of one of the four *)
(* address shapes, tried in this order: the "Center Camp Plaza" keyword;   *)
(* "<ring letter> Plaza @ <clock>"; "<clock> Portal" without "&"; exactly  *)
(* two "&"-separated tokens, one a clock and the other a ring letter A-K   *)
(* or the Esplanade keyword.  The coordinate it returns is a numeric       *)
(* latitude and longitude.  For every other string (more than two tokens,  *)
(* a token that is clock-like only because it holds a ":", ...) coordOf    *)
(* throws.                                                                 *)
(***************************************************************************)
C17_AllDigits(s) == s # <<>> /\ \A i \in DOMAIN s : IsDigit(s[i])
\* "H", "HMM" (one to four digits), "H:MM" or a decimal number of hours
C17_IsClock(s) ==
    \/ C17_AllDigits(s) /\ Len(s) <= 4
    \/ \E i \in {2, 3} :
          /\ Len(s) = i + 2
          /\ s[i] = ":"
          /\ C17_AllDigits(SubSeq(s, 1, i - 1))
          /\ C17_AllDigits(SubSeq(s, i + 1, i + 2))
    \/ \E i \in DOMAIN s :
          /\ s[i] = "."
          /\ C17_AllDigits(SubSeq(s, 1, i - 1))
          /\ C17_AllDigits(SubSeq(s, i + 1, Len(s)))
C17_IsRing(s) ==
    \/ Len(s) = 1 /\ \E i \in DOMAIN RingOrder : toUpperCase(s) = <<RingOrder[i]>>
    \/ toUpperCase(s) \in {<<"E", "S", "P", "L", "A", "N", "A", "D", "E">>, <<"E", "S", "P", "L">>}

C17_IsCenterCamp(s) == includes(s, <<"C", "e", "n", "t", "e", "r", " ", "C", "a", "m", "p", " ", "P", "l", "a", "z", "a">>)
C17_IsRingPlaza(s) ==
    /\ includes(s, <<"P", "l", "a", "z", "a">>)
    /\ Len(split(s, "@")) = 2
    /\ RingPlazaMatch(trim(split(s, "@")[1])) # 0
    /\ C17_IsClock(trim(split(s, "@")[2]))
C17_IsPortal(s) == ~includes(s, <<"&">>) /\ PortalMatch(s) # <<>>
C17_IsIntersection(s) ==
    /\ Len(split(s, "&")) = 2
    /\ \A left \in {trim(split(s, "&")[1])} :
          \A right \in {trim(split(s, "&")[2])} :
             \/ C17_IsClock(left) /\ C17_IsRing(right)
             \/ C17_IsRing(left) /\ C17_IsClock(right)
C17_HasShape(s) ==
    \/ C17_IsCenterCamp(s)
    \/ C17_IsRingPlaza(s)
    \/ C17_IsPortal(s)
    \/ C17_IsIntersection(s)
C17_IsCoordinate(result) ==
    /\ result.k = "ok"
    /\ result.v.lat.k \in {"num", "proj"}
    /\ result.v.lon.k \in {"num", "proj"}

C17_OnlyFourShapes ==
    (call.fn = "coordOf" /\ ret.k = "returned") =>
        IF C17_HasShape(call.locationString)
        THEN C17_IsCoordinate(ret.v)
        ELSE ret.v.k = "throw"

\* What holds instead: a string of one of the four shapes gets a numeric
\* coordinate, and a string without "&" gets one only if it has one of the
\* first three shapes; of the strings with "&" that have not the fourth
\* shape, some throw and some do not.
C17_ShapesResolve ==
    (call.fn = "coordOf" /\ ret.k = "returned") =>
        /\ C17_HasShape(call.locationString) => C17_IsCoordinate(ret.v)
        /\ (~C17_HasShape(call.locationString)
            /\ ~includes(call.locationString, <<"&">>)) => ret.v.k = "throw"

\* three "&"-separated tokens, and coordOf returned the coordinate of the
\* first two
C17_Witness ==
    /\ call.fn = "coordOf" /\ ret.k = "returned"
    /\ Len(split(call.locationString, "&")) = 3
    /\ ret.v = coordOf(ADDR_INTERSECTION)
    /\ C17_IsCoordinate(ret.v)

(***************************************************************************)
(* C18.  For every valid clock string c and ring name r (a letter A-K or   *)
(* Esplanade), coordOf("c & r") and coordOf("r & c") are equal, and both   *)
(* equal destPoint from the fixed origin at radiusFeetForRing(r) converted *)
(* to metres and bearingFromClock(c).  When both tokens are clock-like or  *)
(* neither is, coordOf throws.                                             *)
(***************************************************************************)
C18_Direct(c, r) ==
    Ok(destPoint(MAN.lat, MAN.lon,
                 radiusFeetForRing(r).v * FT2M, bearingFromClock(c).v))
C18_Tokens(locationString) ==
    {t \in GeoTokens \X GeoTokens : locationString = Intersection(t[1], t[2])}
C18_Intersection ==
    (call.fn = "coordOf" /\ ret.k = "returned") =>
        \A t \in C18_Tokens(call.locationString) :
           /\ \A c \in GeoValidClocks : \A r \in GeoValidRings :
                 (t = <<c, r>> \/ t = <<r, c>>) =>
                    /\ ret.v = C18_Direct(c, r)
                    /\ coordOf(Intersection(c, r)) = coordOf(Intersection(r, c))
           /\ isClockish(t[1]) = isClockish(t[2]) => ret.v.k = "throw"

\* coordOf returned the point of a ring given before its clock
C18_Witness ==
    /\ call.fn = "coordOf" /\ ret.k = "returned"
    /\ \E c \in GeoValidClocks : \E r \in GeoValidRings :
          /\ call.locationString = Intersection(r, c)
          /\ ret.v = C18_Direct(c, r)
          /\ ret.v.v.lat.k = "proj"
          /\ ret.v.v.lat.distanceM > ESPL_RADIUS_FT * FT2M

(***************************************************************************)
(* timeUtils.getCountdownInfo.  Instants are getTime() values, in          *)
(* milliseconds.  The text of a relative time is kept as the sequence of   *)
(* its pieces.                                                             *)
(***************************************************************************)
MsPerMinute == 60000
\* Math.round(ms / 60000): the nearest whole number, a half rounding up
RoundMinutes(ms) == (2 * ms + MsPerMinute) \div (2 * MsPerMinute)

formatCountdown(minutes) ==
    IF Abs(minutes) < 60 THEN <<ToString(Abs(minutes)), "m">>
    ELSE IF Abs(minutes) % 60 = 0 THEN <<ToString(Abs(minutes) \div 60), "h">>
    ELSE <<ToString(Abs(minutes) \div 60), "h", " ",
           ToString(Abs(minutes) % 60), "m">>

RelativeTime(diffMs, diffMinutes) ==
    [text   |-> IF diffMs < 0
                THEN formatCountdown(0 - diffMinutes) \o <<" ago">>
                ELSE <<"in ">> \o formatCountdown(diffMinutes),
     isPast |-> diffMs < 0,
     isNear |-> Abs(diffMinutes) <= 15]
getRelativeTime(targetTime, referenceTime) ==
    RelativeTime(targetTime - referenceTime,
                 RoundMinutes(targetTime - referenceTime))

CountdownInfo(minutesToStart, minutesToEnd, startsIn, endsIn) ==
    [minutesUntilStart |-> minutesToStart,
     minutesUntilEnd   |-> minutesToEnd,
     startsIn          |-> startsIn,
     endsIn            |-> endsIn,
     isStartingSoon    |-> minutesToStart > 0 /\ minutesToStart <= 15,
     isEndingSoon      |-> minutesToStart <= 0 /\ minutesToEnd > 0 /\ minutesToEnd <= 15,
     isActive          |-> minutesToStart <= 0 /\ minutesToEnd > 0,
     hasStarted        |-> minutesToStart <= 0,
     hasEnded          |-> minutesToEnd <= 0]

\* getCountdownInfo with the differences cut to whole minutes, not rounded
getCountdownInfo_Truncated(start, end, now) ==
    CountdownInfo((start - now) \div MsPerMinute, (end - now) \div MsPerMinute,
                  getRelativeTime(start, now), getRelativeTime(end, now))

getCountdownInfo(start, end, now) ==
    CountdownInfo(RoundMinutes(start - now), RoundMinutes(end - now),
                  getRelativeTime(start, now), getRelativeTime(end, now))

(***************************************************************************)
(* The countdown harness: getCountdownInfo of a start and an end up to     *)
(* MaxCountdownMinutes after and MaxElapsedMinutes before now, on a whole  *)
(* minute, just under half a minute past it and half a minute past it.     *)
(***************************************************************************)
MaxCountdownMinutes == 16
MaxElapsedMinutes == 2
CountdownNows == {0, 1000}
CountdownOffsets ==
    {m * MsPerMinute + ms :
        m \in (0 - MaxElapsedMinutes)..MaxCountdownMinutes,
        ms \in {0, MsPerMinute \div 2 - 1, MsPerMinute \div 2}}

InitCountdown ==
    /\ \E now \in CountdownNows :
          \E startOffset \in CountdownOffsets : \E endOffset \in CountdownOffsets :
             call = [fn |-> "getCountdownInfo", start |-> now + startOffset,
                     end |-> now + endOffset, now |-> now]
    /\ ret = NoRet
    /\ PipelineIdle
    /\ ServicesIdle

CallGetCountdownInfo ==
    /\ call.fn = "getCountdownInfo"
    /\ ret = NoRet
    /\ ret' = Returned(getCountdownInfo(call.start, call.end, call.now))
    /\ UNCHANGED <<serviceVars, call, dataServiceVars, processorVars, passVars>>

NextCountdown == CallGetCountdownInfo
SpecCountdown == InitCountdown /\ [][NextCountdown]_vars

(***************************************************************************)
(* C19.  getCountdownInfo(start, end, now) reports isStartingSoon iff      *)
(* 0 < start - now <= 15 minutes, isActive iff the occurrence has started  *)
(* and not ended, isEndingSoon iff it is active and end - now <= 15        *)
(* minutes, and hasEnded iff end <= now; isActive and hasEnded are never   *)
(* both true, and isEndingSoon implies isActive.                           *)
(***************************************************************************)
C19_Called == call.fn = "getCountdownInfo" /\ ret.k = "returned"
C19_Exclusive(info) ==
    /\ ~(info.isActive /\ info.hasEnded)
    /\ info.isEndingSoon => info.isActive
C19_CountdownFlags ==
    C19_Called =>
        /\ ret.v.isStartingSoon <=>
              (0 < call.start - call.now /\ call.start - call.now <= 15 * MsPerMinute)
        /\ ret.v.isActive <=> (call.start <= call.now /\ call.now < call.end)
        /\ ret.v.isEndingSoon <=>
              /\ call.start <= call.now /\ call.now < call.end
              /\ call.end - call.now <= 15 * MsPerMinute
        /\ ret.v.hasEnded <=> call.end <= call.now
        /\ C19_Exclusive(ret.v)

\* The flags are those of the claim with each difference taken to the
\* nearest whole minute, a half rounding up: a difference of d minutes
\* stands for the instants from half a minute before d to just under half
\* a minute after it.
C19_HalfMinute == MsPerMinute \div 2
C19_CountdownFlagsOfRoundedMinutes ==
    C19_Called =>
        \A toStart \in {call.start - call.now} : \A toEnd \in {call.end - call.now} :
           /\ ret.v.isStartingSoon <=>
                 (C19_HalfMinute <= toStart /\ toStart < 15 * MsPerMinute + C19_HalfMinute)
           /\ ret.v.isActive <=> (toStart < C19_HalfMinute /\ C19_HalfMinute <= toEnd)
           /\ ret.v.isEndingSoon <=>
                 /\ toStart < C19_HalfMinute /\ C19_HalfMinute <= toEnd
                 /\ toEnd < 15 * MsPerMinute + C19_HalfMinute
           /\ ret.v.hasEnded <=> toEnd < C19_HalfMinute
           /\ C19_Exclusive(ret.v)
           /\ (toStart % MsPerMinute = 0 /\ toEnd % MsPerMinute = 0) =>
                 /\ ret.v.isStartingSoon <=> (0 < toStart /\ toStart <= 15 * MsPerMinute)
                 /\ ret.v.isActive <=> (toStart <= 0 /\ 0 < toEnd)
                 /\ ret.v.isEndingSoon <=>
                       (toStart <= 0 /\ 0 < toEnd /\ toEnd <= 15 * MsPerMinute)
                 /\ ret.v.hasEnded <=> toEnd <= 0

\* an occurrence that starts in under half a minute and ends in a quarter
\* of an hour and just under half a minute: reported active and ending soon
C19_Witness ==
    /\ C19_Called
    /\ 0 < call.start - call.now /\ call.start - call.now < C19_HalfMinute
    /\ call.end - call.now > 15 * MsPerMinute
    /\ ret.v.isActive /\ ret.v.isEndingSoon /\ ~ret.v.isStartingSoon /\ ~ret.v.hasEnded

(***************************************************************************)
(* Two passes on the shared eventProcessor, interleaved at their awaits.   *)
(* The dataset holds this year's event e1 (a Thursday and the Friday       *)
(* after) and one event of last year; each pass asks for this year or for  *)
(* last year.  The clock and the favourites stand still.                   *)
(***************************************************************************)
Runs == {1, 2}
TwoYearEvents(lastYearUid) ==
    <<PlainEvent("e1", <<SoonOccurrence,
                         OccurrenceAt(PassNow + 1 + MinutesPerDay)>>),
      RawEvent(lastYearUid, defaultYear - 1, <<"f", "o", "o", "d">>,
               <<SoonOccurrence,
                 OccurrenceAt(PassNow + 1 + (1 + 1 + 1) * MinutesPerDay)>>,
               "", "", <<>>)>>
YearParams(year, favoritesOnly) ==
    [SearchParams(Null, Null, Null, Null, DateOf(PassNow), Null, FALSE, FALSE,
                  favoritesOnly) EXCEPT !.year = year]
InitConcurrent ==
    /\ HarnessIdle
    /\ ServicesIdle
    /\ \E lastYearUid \in {"e1", "e2"} :
          world = [events |-> TwoYearEvents(lastYearUid), art |-> ArtVenues,
                   camps |-> CampVenues]
    /\ \E year1 \in {Null, Given(defaultYear - 1)} :
          \E year2 \in {Null, Given(defaultYear - 1)} :
             \E favoritesOnly \in BOOLEAN :
                pass = <<NewPass(YearParams(year1, FALSE)),
                         NewPass(YearParams(year2, favoritesOnly))>>
    /\ favorites = {SoonId}
    /\ dsArtMapCache = Null
    /\ dsCampMapCache = Null
    /\ originalEvents = <<>>
    /\ artMapCache = Null
    /\ campMapCache = Null
    /\ wallClock = PassNow
    /\ lastThrown = Null

NextConcurrent == \E p \in Runs : PassStep(p)

SpecConcurrent == InitConcurrent /\ [][NextConcurrent]_vars

(***************************************************************************)
(* C20.  When two processEvents passes run concurrently on the shared      *)
(* eventProcessor, interleaved at their await points, each pass returns    *)
(* exactly the list it would return if it ran alone; no pass reads a       *)
(* partially built venue map or the event list loaded by the other pass.   *)
(***************************************************************************)
\* a pass run alone from its first occurrence on: no other pass assigns
\* originalEvents, so every getFutureOccurrences reads the pass's own events
RECURSIVE C20_RunAlone(_, _, _)
C20_RunAlone(st, artMap, campMap) ==
    IF st.pc = "resolveEventLocation"
    THEN C20_RunAlone(RunLoops(AfterLocation(st, st.events, wallClock),
                               st.i, st.j + 1, artMap, campMap),
                      artMap, campMap)
    ELSE st
C20_AloneFrom(st, artMap, campMap) ==
    C20_RunAlone(RunLoops(st, 1, 1, artMap, campMap), artMap, campMap)
C20_Alone(searchParams) ==
    C20_AloneFrom([NewPass(searchParams) EXCEPT
                      !.params = WithDefaults(searchParams, wallClock),
                      !.events = OfYear(world.events,
                                        WithDefaults(searchParams, wallClock).year),
                      !.favoriteIds = IF searchParams.showOnlyFavorites
                                      THEN favorites ELSE Null],
                  IndexedMap(world.art), IndexedMap(world.camps))
C20_AsAlone(p) ==
    pass[p].pc = "returned" =>
        pass[p].processedEvents = C20_Alone(pass[p].searchParams).processedEvents
\* a pass about to run the rest of its loop body finds its own event list
C20_OwnEventList(p) ==
    pass[p].pc = "resolveEventLocation" => originalEvents = pass[p].events
\* the processor's venue maps are unset or whole
C20_WholeMaps ==
    /\ artMapCache \in {Null, IndexedMap(world.art), FallbackMap(world.art)}
    /\ campMapCache \in {Null, IndexedMap(world.camps), FallbackMap(world.camps)}

C20_EachAsAlone == \A p \in DOMAIN pass : C20_AsAlone(p)
C20_ConcurrentPassesIsolated ==
    /\ C20_EachAsAlone
    /\ \A p \in DOMAIN pass : C20_OwnEventList(p)
    /\ C20_WholeMaps

\* What holds: the venue maps are never seen partially built, and two
\* passes that ask for the same year each return what they would alone.
C20_SameYearPassesIsolated ==
    /\ C20_WholeMaps
    /\ (\A p \in DOMAIN pass : \A q \in DOMAIN pass :
           pass[p].searchParams.year = pass[q].searchParams.year)
       => \A p \in DOMAIN pass : C20_AsAlone(p) /\ C20_OwnEventList(p)

\* the pass for this year returned after the pass for last year had loaded
\* its events: the Friday of e1 is missing from futureOccurrences
C20_Witness ==
    /\ Len(pass) = 2
    /\ pass[1].pc = "returned"
    /\ pass[1].searchParams.year = Null
    /\ pass[2].searchParams.year # Null
    /\ Len(pass[1].processedEvents) = 1
    /\ pass[1].processedEvents[1].futureOccurrences = <<>>
    /\ C20_Alone(pass[1].searchParams).processedEvents[1].futureOccurrences
          = <<"F">>

(***************************************************************************)
(* The bearing and radius harness: bearingFromClock applied to every hour  *)
(* 0..MaxClockHour in the four notations and to strings of no notation,    *)
(* radiusFeetForRing applied to the ring names and to other names.         *)
(***************************************************************************)
MaxClockHour == 13
RECURSIVE DigitsOf(_)
\* the decimal digits of a natural number
DigitsOf(n) ==
    IF n < 10 THEN <<DigitChars[n + 1]>>
    ELSE DigitsOf(n \div 10) \o <<DigitChars[(n % 10) + 1]>>
TwoDigits(m) == <<DigitChars[(m \div 10) + 1], DigitChars[(m % 10) + 1]>>
ClockMinutes == {0, 15, 30, 59}
ClockFractions == {<<"5">>, <<"2", "5">>, <<"7", "5">>}
ClockH(h) == DigitsOf(h)
ClockHColonMM(h, m) == DigitsOf(h) \o <<":">> \o TwoDigits(m)
ClockHMM(h, m) == DigitsOf(h) \o TwoDigits(m)
ClockDecimalHours(h, frac) == DigitsOf(h) \o <<".">> \o frac
ClockNotations ==
    {ClockH(h) : h \in 0..MaxClockHour}
        \cup {ClockHColonMM(h, m) : h \in 0..MaxClockHour, m \in ClockMinutes}
        \cup {ClockHMM(h, m) : h \in 0..MaxClockHour, m \in ClockMinutes}
        \cup {ClockDecimalHours(h, f) : h \in 0..MaxClockHour, f \in ClockFractions}
NoClockNotations ==
    {<<>>, <<"a", ":", "b">>, <<"x", "9">>, <<"6", ":">>, <<":", "3", "0">>,
     <<"-", "6", ":", "0", "0">>, <<"6", ".">>, <<".", "5">>,
     <<"n", "o", "o", "n">>, <<"6", "h">>, <<"6", ":", "x", "x">>}
RingNames ==
    {<<RingOrder[i]>> : i \in DOMAIN RingOrder}
        \cup {<<Alphabet[i]>> : i \in 1..Len(RingOrder)}
        \cup {<<"E", "s", "p", "l", "a", "n", "a", "d", "e">>,
              <<"E", "S", "P", "L">>, <<" ", "e", "s", "p", "l", " ">>,
              <<" ", "C", " ">>}
NoRingNames ==
    {<<>>, <<" ">>, <<"L">>, <<"Z">>, <<"D", "E", "F">>, <<"A", "B">>,
     <<"j", "k">>, <<"1">>, <<"E", "S", "P">>,
     <<"E", "s", "p", "l", "a", "n", "a", "d", "e", "s">>, <<"A", "A">>,
     <<"B", "A">>}

InitGeoMath ==
    /\ \/ \E clockStr \in ClockNotations \cup NoClockNotations :
             call = [fn |-> "bearingFromClock", clockStr |-> clockStr]
       \/ \E name \in RingNames \cup NoRingNames :
             call = [fn |-> "radiusFeetForRing", name |-> name]
    /\ ret = NoRet
    /\ PipelineIdle
    /\ ServicesIdle

CallBearingFromClock ==
    /\ call.fn = "bearingFromClock"
    /\ ret = NoRet
    /\ ret' = Returned(bearingFromClock(call.clockStr))
    /\ UNCHANGED <<serviceVars, call, dataServiceVars, processorVars, passVars>>

CallRadiusFeetForRing ==
    /\ call.fn = "radiusFeetForRing"
    /\ ret = NoRet
    /\ ret' = Returned(radiusFeetForRing(call.name))
    /\ UNCHANGED <<serviceVars, call, dataServiceVars, processorVars, passVars>>

NextGeoMath == CallBearingFromClock \/ CallRadiusFeetForRing
SpecGeoMath == InitGeoMath /\ [][NextGeoMath]_vars

(***************************************************************************)
(* C23.  bearingFromClock returns, for every accepted notation ("H",       *)
(* "H:MM", "HMM" whose last two digits are minutes, decimal hours), the    *)
(* value ((hour + minute/60) * 30 + 45) mod 360 with hour 12 treated as 0, *)
(* which lies in [0, 360); so "12:00" and "0" both give 45 and "6"         *)
(* differs from "12" by exactly 180.  For every string that is none of     *)
(* these notations it throws instead of returning a value.                 *)
(***************************************************************************)
\* the bearing of hour h and minute m, in half-degrees
C23_HalfDegrees(h, m) == (60 * (IF h = 12 THEN 0 ELSE h) + m + 2 * 45) % 720
C23_FractionMinutes(frac) == (60 * DigitsValue(frac)) \div Pow10(Len(frac))
C23_Called == call.fn = "bearingFromClock" /\ ret.k = "returned"
C23_Returns(s, h, m) ==
    call.clockStr = s =>
        /\ ret.v = Ok(Num(C23_HalfDegrees(h, m)))
        /\ ret.v.v.v >= 0 /\ ret.v.v.v < 2 * 360
C23_Formula ==
    C23_Called =>
        /\ \A h \in 0..MaxClockHour :
              /\ C23_Returns(ClockH(h), h, 0)
              /\ \A m \in ClockMinutes :
                    /\ C23_Returns(ClockHColonMM(h, m), h, m)
                    /\ C23_Returns(ClockHMM(h, m), h, m)
              /\ \A f \in ClockFractions :
                    C23_Returns(ClockDecimalHours(h, f), h, C23_FractionMinutes(f))
        /\ call.clockStr \in {ClockHColonMM(12, 0), ClockH(0)} => ret.v = Ok(Num(2 * 45))
        /\ call.clockStr = ClockH(6) => ret.v = Ok(Num(2 * 45 + 2 * 180))
C23_BearingFromClock ==
    /\ C23_Formula
    /\ (C23_Called /\ call.clockStr \in NoClockNotations) => ret.v.k = "throw"

\* What holds: the formula for the four notations, and a throw for the
\* strings of no notation that hold no ":".
C23_BearingOfNotations ==
    /\ C23_Formula
    /\ (C23_Called /\ call.clockStr \in NoClockNotations
            /\ ~includes(call.clockStr, <<":">>)) => ret.v.k = "throw"

\* bearingFromClock returned NaN for a string that is no clock notation
C23_Witness ==
    /\ C23_Called
    /\ call.clockStr \in NoClockNotations
    /\ ret.v = Ok(NaN)

(***************************************************************************)
(* C24.  radiusFeetForRing returns 2500 for the Esplanade and, for a ring  *)
(* letter L in A..K, the Esplanade outer edge (2500 plus half the          *)
(* Esplanade width) plus, for each ring from A up to and including L, that *)
(* ring's block depth plus its full street width if it is before L or half *)
(* its street width if it is L; the result is strictly increasing from     *)
(* Esplanade through A, B, ..., K, and any other name throws.              *)
(***************************************************************************)
RECURSIVE C24_Before(_)
\* the block depths and full street widths of the first n rings
C24_Before(n) == IF n = 0 THEN 0 ELSE C24_Before(n - 1) + BLOCK[n] + WIDTH[n]
C24_Radius(n) ==
    IF n = 0 THEN 2500
    ELSE 2500 + WIDTH_Esplanade \div 2 + C24_Before(n - 1) + BLOCK[n] + WIDTH[n] \div 2
\* the place of a name in Esplanade, A, ..., K (0 for the Esplanade), -1
\* for any other name
C24_Place(name) ==
    IF toUpperCase(trim(name)) \in {<<"E", "S", "P", "L", "A", "N", "A", "D", "E">>, <<"E", "S", "P", "L">>}
    THEN 0
    ELSE IF \E i \in DOMAIN RingOrder : toUpperCase(trim(name)) = <<RingOrder[i]>>
    THEN CHOOSE i \in DOMAIN RingOrder : toUpperCase(trim(name)) = <<RingOrder[i]>>
    ELSE -1
C24_Called == call.fn = "radiusFeetForRing" /\ ret.k = "returned"
C24_RadiusOfRings ==
    (C24_Called /\ C24_Place(call.name) >= 0) =>
        /\ ret.v = Ok(C24_Radius(C24_Place(call.name)))
        /\ C24_Place(call.name) >= 1 =>
              ret.v.v > C24_Radius(C24_Place(call.name) - 1)
C24_RadiusFeetForRing ==
    /\ C24_RadiusOfRings
    /\ (C24_Called /\ C24_Place(call.name) < 0) => ret.v.k = "throw"

\* What holds besides C24_RadiusOfRings: a name that is not a run of the
\* letters of "ABCDEFGHIJK" (nor empty) throws.
C24_OtherNamesThrow ==
    (C24_Called /\ C24_Place(call.name) < 0
        /\ ~includes(RingOrder, toUpperCase(trim(call.name)))) => ret.v.k = "throw"

\* radiusFeetForRing returned the radius of ring D for the name "DEF"
C24_Witness ==
    /\ C24_Called
    /\ call.name = <<"D", "E", "F">>
    /\ ret.v = Ok(C24_Radius(4))

(***************************************************************************)
(* C25.  Every ProcessedEvent returned by processEvents has status NOW,    *)
(* SOON or UPCOMING and never ENDED, for every now, every time window and  *)
(* every combination of filters: the time-window admission test runs       *)
(* before all other filters.                                               *)
(***************************************************************************)
C25_NeverEnded ==
    \A p \in DOMAIN pass :
       \A n \in DOMAIN pass[p].processedEvents :
          pass[p].processedEvents[n].status \in {"NOW", "SOON", "UPCOMING"}

\* the occurrences of the dataset that have ended at the now of the pass
C25_EndedOccurrences(p) ==
    {occurrence \in UNION {{event.occurrence_set[j] : j \in DOMAIN event.occurrence_set} :
                              event \in {pass[p].events[i] : i \in DOMAIN pass[p].events}} :
        /\ ParseOrNull(occurrence.start_time) # Null
        /\ ParseOrNull(occurrence.end_time) # Null
        /\ determineEventStatus(ParseOrNull(occurrence.start_time),
                                ParseOrNull(occurrence.end_time),
                                pass[p].params.now) = "ENDED"}
\* a pass returned a list of the other occurrence of an event that has an
\* ended occurrence too
C25_Witness ==
    \E p \in DOMAIN pass :
       /\ pass[p].pc = "returned"
       /\ pass[p].processedEvents # <<>>
       /\ C25_EndedOccurrences(p) # {}

(***************************************************************************)
(* DataService.loadData outside local/dev mode, on AsyncStorage and the    *)
(* network.  A dataset is the record of its cache key and of the instant   *)
(* the server was asked for it; a stored item is the JSON text of a value  *)
(* together with the instant it was stored (history).  The clock is in     *)
(* minutes.  An op is the activation record of one call: pc names the      *)
(* await it is suspended at.                                               *)
(***************************************************************************)
maxCacheAge == 10080
EVENTS == "bm_events_cache"
ART == "bm_art_cache"
LAST_UPDATED == "bm_data_last_updated"
FAVORITES_STORAGE_KEY == "bm_favorites_v1"
StorageKeys == {EVENTS, ART, LAST_UPDATED, FAVORITES_STORAGE_KEY}
EmptyStorage == [key \in StorageKeys |-> Null]

\* JSON.stringify(value) and JSON.parse(text) of a JSON value
JSONstringify(value) == [k |-> "json", v |-> value]
JSONparse(text) == IF text.k = "json" THEN Ok(text.v) ELSE Throw("SyntaxError")
Stored(text, clock) == [text |-> text, storedAt |-> clock]
\* AsyncStorage.getItem(key): the text, or null
getItem(storage, key) ==
    IF storage[key] = Null THEN Null ELSE storage[key].text
setItem(storage, key, text, clock) ==
    [storage EXCEPT ![key] = Stored(text, clock)]

AgeOf(stored, clock) == IF stored = Null THEN -1 ELSE clock - stored.storedAt

Dataset(cacheKey, clock) == [dataset |-> cacheKey, fetchedAt |-> clock]

\* getCacheInfo: lastUpdatedStr ? parseInt(lastUpdatedStr, 10) : 0, and
\* Date.now() - lastUpdated > AppConfig.maxCacheAge
LastUpdatedOf(lastUpdatedStr) ==
    IF lastUpdatedStr = Null \/ lastUpdatedStr.v = <<>> THEN Num(0)
    ELSE parseInt(lastUpdatedStr.v)
CacheInfo(cachedData, lastUpdated, clock) ==
    [lastUpdated |-> lastUpdated,
     isStale |-> NumGt(NumSub(Num(clock), lastUpdated), Num(maxCacheAge)),
     hasCache |-> cachedData # Null]
getCacheInfo(storage, cacheKey, clock) ==
    CacheInfo(getItem(storage, cacheKey),
              LastUpdatedOf(getItem(storage, LAST_UPDATED)), clock)
\* what getCacheInfo returns when a read of the storage fails
NoCacheInfo == [lastUpdated |-> Num(0), isStale |-> TRUE, hasCache |-> FALSE]

\* (hadCache, cachedAge, fetched, storageFailed and fetchFailed are
\* history: whether a cached copy was stored when the call was made, how
\* long before getCacheInfo the cached copy was stored (-1: none), whether
\* the call asked the server, and whether a storage operation or the fetch
\* failed)
NewLoad(cacheKey, forceRefresh, storage) ==
    [fn |-> "loadData", cacheKey |-> cacheKey, forceRefresh |-> forceRefresh,
     pc |-> "getCacheInfo", cacheInfo |-> Null, isOnline |-> FALSE,
     data |-> Null, now |-> Null, error |-> Null, result |-> Null,
     hadCache |-> storage[cacheKey] # Null, cachedAge |-> -1,
     fetched |-> FALSE,
     storageFailed |-> FALSE, fetchFailed |-> FALSE]

LoadReturns(op, data) == [op EXCEPT !.pc = "returned", !.result = data]
LoadThrows(op, error) == [op EXCEPT !.pc = "rejected", !.error = error]
NoDataAvailable == "No data available and device is offline"
\* loadData from "Try to fetch fresh data if online" on, up to its next await
FetchOrFallBack(op) ==
    IF op.isOnline THEN [op EXCEPT !.pc = "fetch", !.fetched = TRUE]
    ELSE IF op.cacheInfo.hasCache THEN [op EXCEPT !.pc = "getItemOffline"]
    ELSE LoadThrows(op, NoDataAvailable)
\* the catch of the fetch, of the two writes, and of JSON.stringify
CatchFetch(op, error) ==
    IF op.cacheInfo.hasCache
    THEN [op EXCEPT !.pc = "getItemFallBack", !.error = error]
    ELSE LoadThrows(op, error)
\* loadData after isOnline() up to its next await
AfterIsOnline(op) ==
    IF /\ op.cacheInfo.hasCache
       /\ ~op.forceRefresh
       /\ (~op.cacheInfo.isStale \/ ~op.isOnline)
    THEN [op EXCEPT !.pc = "getItemCached"]
    ELSE FetchOrFallBack(op)
\* loadData after one of its three reads of the cached copy resolved with
\* cachedData
AfterGetItem(op, cachedData) ==
    IF cachedData # Null /\ JSONparse(cachedData).k = "ok"
    THEN LoadReturns(op, JSONparse(cachedData).v)
    ELSE IF op.pc = "getItemCached" THEN FetchOrFallBack(op)
    ELSE IF op.pc = "getItemFallBack" THEN LoadThrows(op, op.error)
    ELSE LoadThrows(op, NoDataAvailable)
\* loadData after one of the three reads rejected: the first is inside a
\* try, the other two are not
AfterGetItemFailed(op) ==
    IF op.pc = "getItemCached"
    THEN FetchOrFallBack([op EXCEPT !.storageFailed = TRUE])
    ELSE LoadThrows([op EXCEPT !.storageFailed = TRUE], "storage")

MaxLoads == 2
MaxLoadWeeks == 1
Step(o, after) == ops' = [ops EXCEPT ![o] = after]
LoadRest == <<harnessVars, dataServiceVars, processorVars, favorites,
              lastThrown, pass, favoriteEvents, isInitialized, scheduled>>

CallLoadData(cacheKey, forceRefresh) ==
    /\ Len(ops) < MaxLoads
    /\ ops' = Append(ops, NewLoad(cacheKey, forceRefresh, asyncStorage))
    /\ UNCHANGED <<LoadRest, asyncStorage, online, wallClock>>

CacheInfoResolves(o) ==
    /\ o \in DOMAIN ops
    /\ ops[o].pc = "getCacheInfo"
    /\ Step(o, [ops[o] EXCEPT !.pc = "isOnline",
                   !.cacheInfo = getCacheInfo(asyncStorage, ops[o].cacheKey,
                                              wallClock),
                   !.cachedAge = AgeOf(asyncStorage[ops[o].cacheKey],
                                       wallClock)])
    /\ UNCHANGED <<LoadRest, asyncStorage, online, wallClock>>

CacheInfoRejects(o) ==
    /\ o \in DOMAIN ops
    /\ ops[o].pc = "getCacheInfo"
    /\ Step(o, [ops[o] EXCEPT !.pc = "isOnline", !.cacheInfo = NoCacheInfo,
                   !.storageFailed = TRUE])
    /\ UNCHANGED <<LoadRest, asyncStorage, online, wallClock>>

IsOnlineResolves(o) ==
    /\ o \in DOMAIN ops
    /\ ops[o].pc = "isOnline"
    /\ Step(o, AfterIsOnline([ops[o] EXCEPT !.isOnline = online]))
    /\ UNCHANGED <<LoadRest, asyncStorage, online, wallClock>>

GetItemResolves(o) ==
    /\ o \in DOMAIN ops
    /\ ops[o].pc \in {"getItemCached", "getItemFallBack", "getItemOffline"}
    /\ Step(o, AfterGetItem(ops[o], getItem(asyncStorage, ops[o].cacheKey)))
    /\ UNCHANGED <<LoadRest, asyncStorage, online, wallClock>>

GetItemRejects(o) ==
    /\ o \in DOMAIN ops
    /\ ops[o].pc \in {"getItemCached", "getItemFallBack", "getItemOffline"}
    /\ Step(o, AfterGetItemFailed(ops[o]))
    /\ UNCHANGED <<LoadRest, asyncStorage, online, wallClock>>

\* fetchFromURL resolves with the server's dataset: the data is cached
FetchResolves(o) ==
    /\ o \in DOMAIN ops
    /\ ops[o].pc = "fetch"
    /\ Step(o, [ops[o] EXCEPT !.pc = "setItemData",
                   !.data = Dataset(ops[o].cacheKey, wallClock)])
    /\ UNCHANGED <<LoadRest, asyncStorage, online, wallClock>>

FetchRejects(o) ==
    /\ o \in DOMAIN ops
    /\ ops[o].pc = "fetch"
    /\ Step(o, CatchFetch([ops[o] EXCEPT !.fetchFailed = TRUE], "fetch"))
    /\ UNCHANGED <<LoadRest, asyncStorage, online, wallClock>>

\* setItem(cacheKey, JSON.stringify(data)) resolves; Date.now().toString()
\* is taken and the second write is awaited
SetItemDataResolves(o) ==
    /\ o \in DOMAIN ops
    /\ ops[o].pc = "setItemData"
    /\ asyncStorage' = setItem(asyncStorage, ops[o].cacheKey,
                               JSONstringify(ops[o].data), wallClock)
    /\ Step(o, [ops[o] EXCEPT !.pc = "setItemLastUpdated",
                   !.now = [k |-> "text", v |-> DigitsOf(wallClock)]])
    /\ UNCHANGED <<LoadRest, online, wallClock>>

SetItemLastUpdatedResolves(o) ==
    /\ o \in DOMAIN ops
    /\ ops[o].pc = "setItemLastUpdated"
    /\ asyncStorage' = setItem(asyncStorage, LAST_UPDATED, ops[o].now,
                               wallClock)
    /\ Step(o, LoadReturns(ops[o], ops[o].data))
    /\ UNCHANGED <<LoadRest, online, wallClock>>

\* either write rejects (the storage is full): the catch of the fetch
SetItemRejects(o) ==
    /\ o \in DOMAIN ops
    /\ ops[o].pc \in {"setItemData", "setItemLastUpdated"}
    /\ Step(o, CatchFetch([ops[o] EXCEPT !.storageFailed = TRUE], "storage"))
    /\ UNCHANGED <<LoadRest, asyncStorage, online, wallClock>>

ConnectivityChanges ==
    /\ online' = ~online
    /\ UNCHANGED <<LoadRest, asyncStorage, ops, wallClock>>

LoadInstants ==
    {0} \cup {w * maxCacheAge + d : w \in 1..MaxLoadWeeks, d \in {0, 1}}
LoadTimePasses ==
    /\ \E t \in LoadInstants : t > wallClock /\ wallClock' = t
    /\ UNCHANGED <<LoadRest, asyncStorage, ops, online>>

\* nothing cached, or the events cached at instant 0 by an earlier load
InitLoadData ==
    /\ HarnessIdle
    /\ world = NoWorld
    /\ dsArtMapCache = Null
    /\ dsCampMapCache = Null
    /\ originalEvents = <<>>
    /\ artMapCache = Null
    /\ campMapCache = Null
    /\ favorites = {}
    /\ lastThrown = Null
    /\ pass = <<>>
    /\ favoriteEvents = <<>>
    /\ isInitialized = FALSE
    /\ scheduled = {}
    /\ wallClock = 0
    /\ ops = <<>>
    /\ online \in BOOLEAN
    /\ asyncStorage \in
          {EmptyStorage,
           setItem(setItem(EmptyStorage, EVENTS,
                           JSONstringify(Dataset(EVENTS, 0)), 0),
                   LAST_UPDATED, [k |-> "text", v |-> DigitsOf(0)], 0)}

Loads == 1..MaxLoads
NextLoadData ==
    \/ \E cacheKey \in {EVENTS, ART} : \E forceRefresh \in BOOLEAN :
          CallLoadData(cacheKey, forceRefresh)
    \/ \E o \in Loads : CacheInfoResolves(o)
    \/ \E o \in Loads : CacheInfoRejects(o)
    \/ \E o \in Loads : IsOnlineResolves(o)
    \/ \E o \in Loads : GetItemResolves(o)
    \/ \E o \in Loads : GetItemRejects(o)
    \/ \E o \in Loads : FetchResolves(o)
    \/ \E o \in Loads : FetchRejects(o)
    \/ \E o \in Loads : SetItemDataResolves(o)
    \/ \E o \in Loads : SetItemLastUpdatedResolves(o)
    \/ \E o \in Loads : SetItemRejects(o)
    \/ ConnectivityChanges
    \/ LoadTimePasses

SpecLoadData == InitLoadData /\ [][NextLoadData]_vars

(***************************************************************************)
(* C22.  loadData with a cached copy never throws.                         *)
(***************************************************************************)
C22_Completed(op) == op.fn = "loadData" /\ op.pc \in {"returned", "rejected"}
C22_FetchSucceeded(op) == op.fetched /\ ~op.fetchFailed /\ op.data # Null
C22_ReturnsFresh(op) == op.pc = "returned" /\ op.result = op.data
C22_ReturnsCached(op) ==
    /\ op.pc = "returned"
    /\ op.result.dataset = op.cacheKey
    /\ C22_FetchSucceeded(op) => op.result # op.data
C22_AsClaimed(op) ==
    /\ op.hadCache =>
          IF op.isOnline /\ C22_FetchSucceeded(op)
          THEN C22_ReturnsFresh(op)
          ELSE C22_ReturnsCached(op)
    /\ op.pc = "rejected" =>
          ~op.hadCache /\ (~op.isOnline \/ op.fetchFailed)

\* C22: whenever a cached copy of the dataset exists, a completed loadData
\* has returned data (the fresh data when the device is online and the
\* fetch succeeded, the cached copy otherwise) and has not thrown; it has
\* thrown only when no cached copy existed and the device was offline or
\* the fetch failed.
C22_CachedNeverThrows ==
    \A o \in DOMAIN ops : C22_Completed(ops[o]) => C22_AsClaimed(ops[o])

\* the same, for the calls none of whose storage operations failed
C22_WithWorkingStorage ==
    \A o \in DOMAIN ops :
        C22_Completed(ops[o]) /\ ~ops[o].storageFailed =>
            C22_AsClaimed(ops[o])

\* the fetch succeeded and a write of the cache failed: with a cached copy
\* the old copy is returned, without one the call throws while online
C22_Witness ==
    \E o \in DOMAIN ops :
        /\ C22_Completed(ops[o])
        /\ ops[o].isOnline
        /\ C22_FetchSucceeded(ops[o])
        /\ ops[o].pc = "rejected"
        /\ ops[o].error = "storage"

(***************************************************************************)
(* C30.  A cached dataset is served without a fetch only while fresh.      *)
(***************************************************************************)
C30_Unforced(op) ==
    /\ op.fn = "loadData"
    /\ op.pc \in {"returned", "rejected"}
    /\ op.isOnline
    /\ ~op.forceRefresh
    /\ ~op.storageFailed

\* C30: a completed loadData that found the device online and had no
\* forceRefresh has returned the cached dataset without asking the server
\* only if that dataset was stored at most maxCacheAge before, and has
\* asked the server when it was stored longer ago.
C30_CachedOnlyWhileFresh ==
    \A o \in DOMAIN ops :
        C30_Unforced(ops[o]) =>
            /\ ops[o].pc = "returned" /\ ~ops[o].fetched =>
                  ops[o].cachedAge <= maxCacheAge
            /\ ops[o].cachedAge > maxCacheAge => ops[o].fetched

\* what the code compares is the one timestamp all datasets share
C30_SharedTimestamp ==
    \A o \in DOMAIN ops :
        C30_Unforced(ops[o]) /\ ops[o].cacheInfo.hasCache =>
            (ops[o].fetched <=> ops[o].cacheInfo.isStale)

\* the events were cached at 0, the art was loaded after more than
\* maxCacheAge, and the events are then returned from the cache
C30_Witness ==
    /\ Len(ops) = 2
    /\ ops[1].cacheKey = ART
    /\ ops[1].pc = "returned"
    /\ ops[2].cacheKey = EVENTS
    /\ C30_Unforced(ops[2])
    /\ ops[2].pc = "returned"
    /\ ~ops[2].fetched
    /\ ops[2].cachedAge > maxCacheAge
    /\ ops[2].result = Dataset(EVENTS, 0)

(***************************************************************************)
(* FavoritesService on AsyncStorage, with the reminders NotificationService*)
(* schedules (settings: enabled, reminderMinutes 30).  favoriteEvents is   *)
(* the array, favorites the Set of ids, asyncStorage[FAVORITES_STORAGE_KEY]*)
(* the JSON text of the array, scheduled the ids the scheduled             *)
(* event-reminder notifications carry.  An op is the activation record of  *)
(* one public call: body is the method whose code is running (toggle and   *)
(* import call other methods), pc the await it is suspended at, payload    *)
(* the text handed to setItem.  The clock stands at FavNow, in minutes.    *)
(***************************************************************************)
FavNow == 50000
ThirtyDays == 43200
reminderMinutes == 30
toISOString(d) == RawIso(getTime(d).v)

\* the fields addFavorite copies from a ProcessedEvent
FavoriteInput(id, start, end) ==
    [id |-> id, title |-> "t", start |-> DateOf(start), end |-> DateOf(end)]
\* upcoming; ended exactly thirty days ago; ended a minute later than that
EventA == FavoriteInput("a", FavNow + 60, FavNow + 120)
EventB == FavoriteInput("b", FavNow - ThirtyDays - 60, FavNow - ThirtyDays)
EventC == FavoriteInput("c", FavNow - ThirtyDays - 60, FavNow - ThirtyDays + 1)
FavoriteOf(event) ==
    [id |-> event.id, title |-> event.title,
     start |-> toISOString(event.start), end |-> toISOString(event.end)]
IdsOf(list) == {list[i].id : i \in DOMAIN list}

\* the imported document: a list with a repeated id, an entry without
\* title and an entry whose end is no date
ImportDoc ==
    JSONstringify([favorites |->
        <<FavoriteOf(EventA), FavoriteOf(EventA),
          [FavoriteOf(EventB) EXCEPT !.title = ""],
          [FavoriteOf(EventC) EXCEPT !.end = RawBad]>>])
SaveError == "Failed to save favorites"
ImportError == "Failed to import favorites: Invalid data format"

\* the memory of the service and the op after a piece of code has run
Mem(list, ids, initialized, op) ==
    [favoriteEvents |-> list, favorites |-> ids, isInitialized |-> initialized,
     op |-> op]
\* (a completed op keeps no local of the call; before is kept by a rejected
\* one)
Returns(op, value) ==
    [op EXCEPT !.pc = "returned", !.result = value, !.payload = Null,
               !.before = <<>>]
Done(op) == [op EXCEPT !.pc = "returned", !.payload = Null, !.before = <<>>]
Rejects(op, error) ==
    [op EXCEPT !.pc = "rejected", !.error = error, !.payload = Null]
\* await this.saveFavorites(): JSON.stringify(this.favoriteEvents) is taken
\* at the call
AwaitSave(list, op) ==
    [op EXCEPT !.pc = "setItem", !.payload = JSONstringify(list),
               !.wrote = TRUE]
\* await this.initialize() by an op: a read of the storage is started
\* unless the service is initialized
AwaitInitialize(initialized, op) ==
    [op EXCEPT !.pc = IF initialized THEN "initialized" ELSE "getItem"]

RECURSIVE FilterOut(_, _)
FilterOut(list, id) ==
    IF list = <<>> THEN <<>>
    ELSE IF Head(list).id = id THEN FilterOut(Tail(list), id)
    ELSE <<Head(list)>> \o FilterOut(Tail(list), id)

\* addFavorite after initialize(), up to await saveFavorites()
AddBody(m) ==
    IF m.op.event.id \in m.favorites THEN [m EXCEPT !.op = Done(m.op)]
    ELSE [m EXCEPT !.favoriteEvents = Append(@, FavoriteOf(m.op.event)),
                   !.favorites = @ \cup {m.op.event.id},
                   !.op = AwaitSave(Append(m.favoriteEvents,
                                           FavoriteOf(m.op.event)), m.op)]
\* (removeFavorite that leaves the id in the Set)
RemoveBody_KeepsId(m) ==
    IF m.op.id \notin m.favorites THEN [m EXCEPT !.op = Done(m.op)]
    ELSE [m EXCEPT !.favoriteEvents = FilterOut(@, m.op.id),
                   !.op = AwaitSave(FilterOut(m.favoriteEvents, m.op.id),
                                    m.op)]
\* removeFavorite after initialize(), up to await saveFavorites()
RemoveBody(m) ==
    IF m.op.id \notin m.favorites THEN [m EXCEPT !.op = Done(m.op)]
    ELSE [m EXCEPT !.favoriteEvents = FilterOut(@, m.op.id),
                   !.favorites = @ \ {m.op.id},
                   !.op = AwaitSave(FilterOut(m.favoriteEvents, m.op.id),
                                    m.op)]
\* toggleFavorite after initialize(): removeFavorite or addFavorite is
\* called and awaits initialize() itself
ToggleBody(m) ==
    [m EXCEPT !.op = AwaitInitialize(m.isInitialized,
                        [m.op EXCEPT !.body = IF m.op.id \in m.favorites
                                              THEN "removeFavorite"
                                              ELSE "addFavorite",
                                     !.result = m.op.id \notin m.favorites])]
\* clearAllFavorites up to await saveFavorites()
ClearBody(m) ==
    [m EXCEPT !.favoriteEvents = <<>>, !.favorites = {},
              !.op = AwaitSave(<<>>, m.op)]

Complete(fav) ==
    fav.id # "" /\ fav.title # "" /\ fav.start # RawNone /\ fav.end # RawNone
\* the loop of importFavorites over data.favorites
RECURSIVE ImportLoop(_, _)
ImportLoop(items, m) ==
    IF items = <<>> THEN m
    ELSE IF Complete(Head(items)) /\ Head(items).id \notin m.favorites
    THEN ImportLoop(Tail(items),
             [m EXCEPT !.favoriteEvents = Append(@, Head(items)),
                       !.favorites = @ \cup {Head(items).id},
                       !.op.count = @ + 1])
    ELSE ImportLoop(Tail(items), m)
\* importFavorites from the loop to await saveFavorites()
ImportItems(m) ==
    [ImportLoop(JSONparse(m.op.doc).v.favorites, m) EXCEPT
        !.op = AwaitSave(ImportLoop(JSONparse(m.op.doc).v.favorites,
                                    m).favoriteEvents,
                         [ImportLoop(JSONparse(m.op.doc).v.favorites, m).op
                             EXCEPT !.body = "importFavorites"])]
\* importFavorites after initialize(): clearAllFavorites is called when
\* merge is false
ImportBody(m) ==
    IF m.op.merge THEN ImportItems(m)
    ELSE ClearBody([m EXCEPT !.op.body = "clearAllFavorites"])

\* new Date(fav.end) > thirtyDaysAgo
Unexpired(fav, now) ==
    NumGt(getTime(NewDate(fav.end)), Num(now - ThirtyDays))
RECURSIVE KeepUnexpired(_, _)
KeepUnexpired(list, now) ==
    IF list = <<>> THEN <<>>
    ELSE IF Unexpired(Head(list), now)
    THEN <<Head(list)>> \o KeepUnexpired(Tail(list), now)
    ELSE KeepUnexpired(Tail(list), now)
\* cleanupExpiredFavorites after initialize()
CleanupBody(m, now) ==
    IF Len(m.favoriteEvents) - Len(KeepUnexpired(m.favoriteEvents, now)) > 0
    THEN [m EXCEPT
            !.favoriteEvents = KeepUnexpired(@, now),
            !.favorites = IdsOf(KeepUnexpired(m.favoriteEvents, now)),
            !.op = AwaitSave(KeepUnexpired(m.favoriteEvents, now),
                     [m.op EXCEPT !.count = Len(m.favoriteEvents)
                          - Len(KeepUnexpired(m.favoriteEvents, now))])]
    ELSE [m EXCEPT !.op = Returns(m.op, 0)]

\* the method of the op from the return of its await initialize() to its
\* next await
AfterInitialize(m, now) ==
    CASE m.op.body = "addFavorite" -> AddBody(m)
      [] m.op.body = "removeFavorite" -> RemoveBody(m)
      [] m.op.body = "toggleFavorite" -> ToggleBody(m)
      [] m.op.body = "isFavorite" ->
            [m EXCEPT !.op = Returns(m.op, m.op.id \in m.favorites)]
      [] m.op.body = "importFavorites" -> ImportBody(m)
      [] m.op.body = "cleanupExpiredFavorites" -> CleanupBody(m, now)

\* scheduleEventNotification up to scheduleNotificationAsync: no reminder
\* whose time is not in the future
AwaitSchedule(op, now) ==
    IF NumLe(NumSub(getTime(NewDate(FavoriteOf(op.event).start)),
                    Num(reminderMinutes)), Num(now))
    THEN Done(op)
    ELSE [op EXCEPT !.pc = "schedule"]
\* the method of the op from the return of await saveFavorites() to its
\* next await
AfterSave(m, now) ==
    CASE m.op.body = "addFavorite" -> [m EXCEPT !.op = AwaitSchedule(m.op, now)]
      [] m.op.body = "removeFavorite" -> [m EXCEPT !.op.pc = "cancel"]
      [] m.op.body = "clearAllFavorites" ->
            IF m.op.fn = "importFavorites" THEN ImportItems(m)
            ELSE [m EXCEPT !.op = Done(m.op)]
      [] m.op.body = "importFavorites" ->
            [m EXCEPT !.op = Returns(m.op, m.op.count)]
      [] m.op.body = "cleanupExpiredFavorites" ->
            [m EXCEPT !.op = Returns(m.op, m.op.count)]
\* saveFavorites threw: importFavorites catches and throws its own error
AfterSaveFailed(op) ==
    Rejects(op, IF op.fn = "importFavorites" THEN ImportError ELSE SaveError)

\* initialize() after getItem resolved with storedFavorites: memory is
\* left as it is when nothing is stored, and emptied when JSON.parse throws
Loaded(storedFavorites, m) ==
    IF storedFavorites = Null THEN [m EXCEPT !.isInitialized = TRUE]
    ELSE IF JSONparse(storedFavorites).k = "ok"
    THEN [m EXCEPT !.favoriteEvents = JSONparse(storedFavorites).v,
                   !.favorites = IdsOf(JSONparse(storedFavorites).v),
                   !.isInitialized = TRUE, !.op.loaded = TRUE]
    ELSE [m EXCEPT !.favoriteEvents = <<>>, !.favorites = {},
                   !.isInitialized = TRUE]

\* (wrote, loaded and before are history: whether the op called
\* saveFavorites, whether its initialize() read a stored list into memory,
\* and favoriteEvents when the call was made)
NewOp(fn, event, id, doc, merge, list) ==
    [fn |-> fn, body |-> fn, event |-> event, id |-> id, doc |-> doc,
     merge |-> merge, pc |-> "called", payload |-> Null, count |-> 0,
     result |-> Null, error |-> Null, wrote |-> FALSE, loaded |-> FALSE,
     before |-> list]

MaxCalls == 2
Calls == 1..MaxCalls
ServiceRest == <<harnessVars, dataServiceVars, processorVars, lastThrown,
                 pass, online, wallClock>>
Here(op) == Mem(favoriteEvents, favorites, isInitialized, op)
Apply(o, m) ==
    /\ favoriteEvents' = m.favoriteEvents
    /\ favorites' = m.favorites
    /\ isInitialized' = m.isInitialized
    /\ ops' = [ops EXCEPT ![o] = m.op]
\* a public method that starts with await this.initialize() is called
Called(op) == ops' = Append(ops, AwaitInitialize(isInitialized, op))
Memory == <<asyncStorage, favoriteEvents, favorites, isInitialized,
            scheduled>>

CallAddFavorite(event) ==
    /\ Len(ops) < MaxCalls
    /\ Called(NewOp("addFavorite", event, event.id, Null, TRUE,
                    favoriteEvents))
    /\ UNCHANGED <<ServiceRest, Memory>>
CallRemoveFavorite(id) ==
    /\ Len(ops) < MaxCalls
    /\ Called(NewOp("removeFavorite", Null, id, Null, TRUE, favoriteEvents))
    /\ UNCHANGED <<ServiceRest, Memory>>
CallToggleFavorite(event) ==
    /\ Len(ops) < MaxCalls
    /\ Called(NewOp("toggleFavorite", event, event.id, Null, TRUE,
                    favoriteEvents))
    /\ UNCHANGED <<ServiceRest, Memory>>
CallIsFavorite(id) ==
    /\ Len(ops) < MaxCalls
    /\ Called(NewOp("isFavorite", Null, id, Null, TRUE, favoriteEvents))
    /\ UNCHANGED <<ServiceRest, Memory>>
CallCleanupExpiredFavorites ==
    /\ Len(ops) < MaxCalls
    /\ Called(NewOp("cleanupExpiredFavorites", Null, "", Null, TRUE,
                    favoriteEvents))
    /\ UNCHANGED <<ServiceRest, Memory>>
\* JSON.parse(jsonData) comes first: a text that is no JSON is rejected
CallImportFavorites(jsonData, merge) ==
    /\ Len(ops) < MaxCalls
    /\ IF JSONparse(jsonData).k = "ok"
       THEN Called(NewOp("importFavorites", Null, "", jsonData, merge,
                         favoriteEvents))
       ELSE ops' = Append(ops, Rejects(NewOp("importFavorites", Null, "",
                                  jsonData, merge, favoriteEvents),
                                  ImportError))
    /\ UNCHANGED <<ServiceRest, Memory>>
\* clearAllFavorites does not initialize: memory is emptied at the call
CallClearAllFavorites ==
    /\ Len(ops) < MaxCalls
    /\ favoriteEvents' = <<>>
    /\ favorites' = {}
    /\ ops' = Append(ops, ClearBody(Here(NewOp("clearAllFavorites", Null, "",
                                   Null, TRUE, favoriteEvents))).op)
    /\ UNCHANGED <<ServiceRest, asyncStorage, isInitialized, scheduled>>

\* getItem of initialize() resolves: the stored list replaces memory, and
\* the method goes on to its next await
InitializeLoads(o) ==
    /\ o \in DOMAIN ops
    /\ ops[o].pc = "getItem"
    /\ Apply(o, AfterInitialize(
                   Loaded(getItem(asyncStorage, FAVORITES_STORAGE_KEY),
                          Here(ops[o])), wallClock))
    /\ UNCHANGED <<ServiceRest, asyncStorage, scheduled>>
\* getItem of initialize() rejects: the catch empties memory
InitializeFails(o) ==
    /\ o \in DOMAIN ops
    /\ ops[o].pc = "getItem"
    /\ Apply(o, AfterInitialize(Mem(<<>>, {}, TRUE, ops[o]), wallClock))
    /\ UNCHANGED <<ServiceRest, asyncStorage, scheduled>>
\* initialize() returned at once, the service being initialized
InitializeReturns(o) ==
    /\ o \in DOMAIN ops
    /\ ops[o].pc = "initialized"
    /\ Apply(o, AfterInitialize(Here(ops[o]), wallClock))
    /\ UNCHANGED <<ServiceRest, asyncStorage, scheduled>>

SaveResolves(o) ==
    /\ o \in DOMAIN ops
    /\ ops[o].pc = "setItem"
    /\ asyncStorage' = setItem(asyncStorage, FAVORITES_STORAGE_KEY,
                               ops[o].payload, wallClock)
    /\ Apply(o, AfterSave(Here(ops[o]), wallClock))
    /\ UNCHANGED <<ServiceRest, scheduled>>
SaveRejects(o) ==
    /\ o \in DOMAIN ops
    /\ ops[o].pc = "setItem"
    /\ Step(o, AfterSaveFailed(ops[o]))
    /\ UNCHANGED <<ServiceRest, asyncStorage, favoriteEvents, favorites,
                   isInitialized, scheduled>>

\* scheduleNotificationAsync resolves (a rejection is caught and leaves no
\* reminder, as a reminder time that has passed does)
ScheduleResolves(o) ==
    /\ o \in DOMAIN ops
    /\ ops[o].pc = "schedule"
    /\ scheduled' = scheduled \cup {ops[o].event.id}
    /\ Step(o, Done(ops[o]))
    /\ UNCHANGED <<ServiceRest, asyncStorage, favoriteEvents, favorites,
                   isInitialized>>
\* cancelEventNotification: the scheduled notifications of the event are
\* cancelled, or a call rejects and the error is logged
CancelResolves(o) ==
    /\ o \in DOMAIN ops
    /\ ops[o].pc = "cancel"
    /\ scheduled' = scheduled \ {ops[o].id}
    /\ Step(o, Done(ops[o]))
    /\ UNCHANGED <<ServiceRest, asyncStorage, favoriteEvents, favorites,
                   isInitialized>>
CancelRejects(o) ==
    /\ o \in DOMAIN ops
    /\ ops[o].pc = "cancel"
    /\ Step(o, Done(ops[o]))
    /\ UNCHANGED <<ServiceRest, asyncStorage, favoriteEvents, favorites,
                   isInitialized, scheduled>>

\* nothing stored, or a list the service wrote
StoredLists == {<<FavoriteOf(EventB), FavoriteOf(EventC)>>}
InitFavoritesService ==
    /\ HarnessIdle
    /\ world = NoWorld
    /\ dsArtMapCache = Null
    /\ dsCampMapCache = Null
    /\ originalEvents = <<>>
    /\ artMapCache = Null
    /\ campMapCache = Null
    /\ lastThrown = Null
    /\ pass = <<>>
    /\ online = FALSE
    /\ wallClock = FavNow
    /\ favorites = {}
    /\ favoriteEvents = <<>>
    /\ isInitialized = FALSE
    /\ scheduled = {}
    /\ ops = <<>>
    /\ asyncStorage \in
          {EmptyStorage} \cup
          {setItem(EmptyStorage, FAVORITES_STORAGE_KEY, JSONstringify(list),
                   FavNow) : list \in StoredLists}

NextFavoritesService ==
    \/ CallAddFavorite(EventA)
    \/ CallRemoveFavorite("a")
    \/ CallToggleFavorite(EventA)
    \/ CallIsFavorite("a")
    \/ CallClearAllFavorites
    \/ \E merge \in BOOLEAN : CallImportFavorites(ImportDoc, merge)
    \/ CallCleanupExpiredFavorites
    \/ \E o \in Calls : InitializeLoads(o)
    \/ \E o \in Calls : InitializeFails(o)
    \/ \E o \in Calls : InitializeReturns(o)
    \/ \E o \in Calls : SaveResolves(o)
    \/ \E o \in Calls : SaveRejects(o)
    \/ \E o \in Calls : ScheduleResolves(o)
    \/ \E o \in Calls : CancelResolves(o)
    \/ \E o \in Calls : CancelRejects(o)

SpecFavoritesService == InitFavoritesService /\ [][NextFavoritesService]_vars

(***************************************************************************)
(* C26.  The Set of ids and the array of favorites agree.                  *)
(***************************************************************************)
C26_SetMatchesList ==
    /\ favorites = IdsOf(favoriteEvents)
    /\ \A i, j \in DOMAIN favoriteEvents :
          favoriteEvents[i].id = favoriteEvents[j].id => i = j
\* op o, past its initialize(), is addFavorite of a favorited id or
\* removeFavorite of an id that is no favorite
C26_NothingToDo(o) ==
    /\ o \in DOMAIN ops
    /\ ops[o].pc = "initialized"
    /\ \/ ops[o].body = "addFavorite" /\ ops[o].id \in favorites
       \/ ops[o].body = "removeFavorite" /\ ops[o].id \notin favorites
C26_NothingDone(o) ==
    /\ ops'[o].pc = "returned"
    /\ ops'[o].wrote = ops[o].wrote
    /\ UNCHANGED <<favoriteEvents, favorites, asyncStorage, scheduled>>

\* C26: in every state of the service, started from an empty store or from
\* one it wrote, favorites holds exactly the ids of favoriteEvents and no id
\* is twice in favoriteEvents; and the step of an addFavorite of a favorited
\* id, or of a removeFavorite of an id that is no favorite, returns with
\* memory, storage and reminders unchanged and without a call of
\* saveFavorites.
C26_SetAndListAgree ==
    /\ []C26_SetMatchesList
    /\ [][\A o \in Calls :
             C26_NothingToDo(o) /\ ops'[o] # ops[o] => C26_NothingDone(o)]_vars

\* a second addFavorite of a favorite returned without writing, and a
\* removeFavorite of an id that is no favorite did
C26_Witness ==
    /\ Len(ops) = 2
    /\ ops[1].fn = "addFavorite"
    /\ ops[1].pc = "returned"
    /\ ops[1].wrote
    /\ ops[2].fn = "addFavorite"
    /\ ops[2].pc = "returned"
    /\ ~ops[2].wrote
    /\ ops[2].id \in favorites
    /\ Len(favoriteEvents) = 3

(***************************************************************************)
(* C27.  Calls started before initialization has completed.                *)
(***************************************************************************)
C27_Removing(op) ==
    \/ op.fn \in {"removeFavorite", "toggleFavorite", "clearAllFavorites",
                  "cleanupExpiredFavorites"}
    \/ op.fn = "importFavorites" /\ ~op.merge
C27_LoadedOnce == Cardinality({o \in DOMAIN ops : ops[o].loaded}) <= 1
C27_AddedStays ==
    \A o \in DOMAIN ops :
        /\ ops[o].fn = "addFavorite"
        /\ ops[o].pc = "returned"
        /\ \A p \in DOMAIN ops : ~C27_Removing(ops[p])
        => ops[o].id \in favorites

\* C27: whatever calls were started before initialization completed, the
\* stored favorites are read into memory by one call only, and the id of an
\* addFavorite that has returned is a favorite as long as no removeFavorite,
\* toggleFavorite, clearAllFavorites, cleanupExpiredFavorites or non-merge
\* importFavorites was called.
C27_InitializationRace == C27_LoadedOnce /\ C27_AddedStays

\* addFavorite("a") and isFavorite("a") were both called before the stored
\* list was read; addFavorite has returned having saved, and "a" is no
\* favorite in memory while the stored list holds it
C27_Witness ==
    /\ Len(ops) = 2
    /\ ops[1].fn = "addFavorite"
    /\ ops[1].pc = "returned"
    /\ ops[1].wrote
    /\ ops[1].loaded
    /\ ops[2].fn = "isFavorite"
    /\ ops[2].loaded
    /\ ops[2].pc = "returned"
    /\ ops[2].result = FALSE
    /\ "a" \notin favorites
    /\ "a" \in IdsOf(JSONparse(getItem(asyncStorage,
                                       FAVORITES_STORAGE_KEY)).v)

(***************************************************************************)
(* C28.  A failed write of addFavorite or removeFavorite.                  *)
(***************************************************************************)
C28_StoredList ==
    IF getItem(asyncStorage, FAVORITES_STORAGE_KEY) = Null THEN <<>>
    ELSE JSONparse(getItem(asyncStorage, FAVORITES_STORAGE_KEY)).v
C28_SaveFailed(op) ==
    /\ op.fn \in {"addFavorite", "removeFavorite"}
    /\ op.pc = "rejected"
    /\ op.error = SaveError

\* C28: when the only call made is an addFavorite or removeFavorite whose
\* write has failed, the call is rejected with 'Failed to save favorites',
\* favoriteEvents is what it was when the call was made, and memory holds
\* the stored list.
C28_FailedWriteRestores ==
    Len(ops) = 1 /\ C28_SaveFailed(ops[1]) =>
        /\ favoriteEvents = ops[1].before
        /\ favoriteEvents = C28_StoredList
        /\ favorites = IdsOf(C28_StoredList)

\* the rejection itself: a failed write rejects with that error
C28_RejectsWithSaveError ==
    [][\A o \in Calls :
          /\ o \in DOMAIN ops
          /\ ops[o].pc = "setItem"
          /\ ops[o].fn \in {"addFavorite", "removeFavorite"}
          /\ ops'[o].pc = "rejected"
          => ops'[o].error = SaveError]_vars

\* addFavorite("a") on the empty store was rejected and "a" is a favorite
\* in memory, with nothing stored
C28_Witness ==
    /\ Len(ops) = 1
    /\ C28_SaveFailed(ops[1])
    /\ ops[1].fn = "addFavorite"
    /\ ops[1].before = <<>>
    /\ favorites = {"a"}
    /\ C28_StoredList = <<>>

(***************************************************************************)
(* C29.  Scheduled reminders are reminders of favorites.                   *)
(***************************************************************************)
C29_Settled(fns) ==
    \A o \in DOMAIN ops :
        ops[o].pc \in {"returned", "rejected"} /\ ops[o].fn \in fns

\* C29: when every call made was an addFavorite, removeFavorite,
\* toggleFavorite, clearAllFavorites or importFavorites and has completed,
\* every scheduled reminder carries the id of a favorite.
C29_RemindersOfFavorites ==
    C29_Settled({"addFavorite", "removeFavorite", "toggleFavorite",
                 "clearAllFavorites", "importFavorites"})
        => scheduled \subseteq favorites

\* addFavorite("a") returned with its reminder scheduled, clearAllFavorites
\* returned, and the reminder of "a" is still scheduled
C29_Witness ==
    /\ Len(ops) = 2
    /\ ops[1].fn = "addFavorite"
    /\ ops[1].pc = "returned"
    /\ ops[2].fn = "clearAllFavorites"
    /\ ops[2].pc = "returned"
    /\ favorites = {}
    /\ scheduled = {"a"}

(***************************************************************************)
(* C21.  cleanupExpiredFavorites, and the ways a favorite leaves.          *)
(***************************************************************************)
C21_EndsLater(fav) == fav.end.k = "iso" /\ fav.end.t > FavNow - ThirtyDays
C21_Removed(list) == Len(list) - Len(SelectSeq(list, C21_EndsLater))
\* the step of cleanupExpiredFavorites after its initialize() returned
C21_CleanupStep(o) ==
    /\ o \in DOMAIN ops
    /\ ops[o].body = "cleanupExpiredFavorites"
    /\ ops[o].pc = "initialized"
    /\ ops'[o] # ops[o]
C21_CleansUp(o) ==
    /\ favoriteEvents' = SelectSeq(favoriteEvents, C21_EndsLater)
    /\ favorites' = IdsOf(favoriteEvents')
    /\ IF C21_Removed(favoriteEvents) > 0
       THEN /\ ops'[o].pc = "setItem"
            /\ ops'[o].payload = JSONstringify(favoriteEvents')
            /\ ops'[o].count = C21_Removed(favoriteEvents)
       ELSE /\ ops'[o].pc = "returned"
            /\ ops'[o].result = 0
            /\ ~ops'[o].wrote
\* the step is one of a removeFavorite, toggleFavorite, clearAllFavorites,
\* cleanupExpiredFavorites or non-merge importFavorites
C21_StepOfRemoving ==
    \/ Len(ops') > Len(ops) /\ C27_Removing(ops'[Len(ops')])
    \/ \E o \in DOMAIN ops : ops'[o] # ops[o] /\ C27_Removing(ops[o])

\* cleanupExpiredFavorites keeps, in order, exactly the favorites whose end
\* is later than thirty days before now, counts the removed ones, and
\* writes only when the count is positive
C21_CleanupExact ==
    [][\A o \in Calls : C21_CleanupStep(o) => C21_CleansUp(o)]_vars

\* C21: cleanupExpiredFavorites removes exactly the favorites whose end is
\* not later than thirty days before now, returns their number and writes
\* only when it is positive; and an id leaves favorites only in a step of
\* cleanupExpiredFavorites, removeFavorite, toggleFavorite,
\* clearAllFavorites or a non-merge importFavorites.
C21_CleanupAndLeaving ==
    [][/\ \A o \in Calls : C21_CleanupStep(o) => C21_CleansUp(o)
       /\ favorites \ favorites' # {} => C21_StepOfRemoving]_vars

\* cleanupExpiredFavorites returned 1 having removed "b", which ended
\* exactly thirty days ago, and kept "c" and "a" in order
C21_Witness ==
    /\ Len(ops) = 2
    /\ ops[2].fn = "cleanupExpiredFavorites"
    /\ ops[2].pc = "returned"
    /\ ops[2].result = 1
    /\ favoriteEvents = <<FavoriteOf(EventC), FavoriteOf(EventA)>>
    /\ C28_StoredList = favoriteEvents
====
